---- MODULE Spec2Model ----
(***************************************************************************)
(* Quiz content and attempt scoring subsystem of quizmaker-app.            *)
(*                                                                         *)
(* The storage is the five relations quizzes, questions, choices,          *)
(* attempts and attempt_responses.  Requests are server actions; each one  *)
(* runs in a request slot and yields at every storage call (await), so     *)
(* the steps of two requests interleave at storage-call granularity.       *)
(* Local computation is folded into the storage step that follows it.      *)
(***************************************************************************)
EXTENDS Integers, Sequences, FiniteSets, TLC

VARIABLES
    quizzes,            \* table quizzes: sequence indexed by id (rows are never removed)
    questions,          \* table questions: set of rows
    choices,            \* table choices: set of rows
    attempts,           \* table attempts: sequence indexed by id (rows are never removed)
    attempt_responses,  \* table attempt_responses: set of rows
    nextQuestionId,     \* next fresh question id handed out by generateId
    clock,              \* Math.floor(Date.now() / 1000)
    failures,           \* number of storage calls that have failed so far
    proc                \* request slots: position and locals of each in-flight server action

vars == <<quizzes, questions, choices, attempts, attempt_responses, nextQuestionId, clock,
          failures, proc>>

db == <<quizzes, questions, choices, attempts, attempt_responses>>

authoring == <<quizzes, questions, choices>>

-----------------------------------------------------------------------------
(* Bounds of the model *)

MaxQuizzes == 1

MaxQuestionIds == 4

MaxAttempts == 1

MaxTime == 2

MaxFailures == 1

\* request slots; a new request takes the lowest free slot
Procs == {1, 2}

Users == {"alice", "bob"}

\* the user who authors quizzes and the user who takes them
Author == "alice"

Taker == "bob"

NoUser == "anonymous"

-----------------------------------------------------------------------------
(* Null encodings of the nullable columns *)

\* submitted_at INTEGER (NULL while in progress); real Unix seconds are positive
NullTime == 0

\* time_taken_seconds INTEGER (optional)
NullSeconds == -1

\* choice_id TEXT (nullable); Map.get miss (undefined)
NullChoice == <<>>

\* optional text column that is NULL / form field that is absent
NullText == ""

\* 'points' absent from a question of the input
NoPoints == 0

NoId == 0

-----------------------------------------------------------------------------
(* Request inputs *)

QuestionInput(text, points, cs) == [questionText |-> text, points |-> points, choices |-> cs]

ChoiceInput(text, isCorrect) == [choiceText |-> text, isCorrect |-> isCorrect]

QGood2 == QuestionInput("q-a", NoPoints,
            <<ChoiceInput("x", TRUE), ChoiceInput("y", FALSE)>>)

QGood3 == QuestionInput("q-b", 2,
            <<ChoiceInput("x", FALSE), ChoiceInput("y", TRUE), ChoiceInput("z", FALSE)>>)

QGood4 == QuestionInput("q-c", 4,
            <<ChoiceInput("x", FALSE), ChoiceInput("y", TRUE), ChoiceInput("z", FALSE),
              ChoiceInput("w", TRUE)>>)

QOneChoice == QuestionInput("q-d", 1, <<ChoiceInput("x", TRUE)>>)

QFiveChoices == QuestionInput("q-e", 1,
            <<ChoiceInput("x", TRUE), ChoiceInput("y", FALSE), ChoiceInput("z", FALSE),
              ChoiceInput("w", FALSE), ChoiceInput("v", FALSE)>>)

QNoCorrect == QuestionInput("q-f", 1,
            <<ChoiceInput("x", FALSE), ChoiceInput("y", FALSE)>>)

\* question lists the schema accepts
CreateQuestionLists == { <<QGood3, QGood2>> }

UpdateQuestionLists == { <<QGood4>> }

\* question lists the schema rejects
InvalidQuestionLists ==
    { <<>>, <<QOneChoice>>, <<QGood2, QFiveChoices>>, <<QNoCorrect>> }

QuizInput(title, description, instructions, hasQuestions, qs) ==
    [title |-> title, description |-> description, instructions |-> instructions,
     hasQuestions |-> hasQuestions, questions |-> qs]

\* FormData of createQuiz: 'questions' is always parsed (defaults to '[]')
CreateInputs ==
    { QuizInput("t1", NullText, NullText, TRUE, qs) :
          qs \in CreateQuestionLists \cup InvalidQuestionLists }
    \cup { QuizInput(NullText, NullText, NullText, TRUE, <<QGood2>>) }

\* FormData of updateQuiz: 'questions' may be absent
UpdateInputs ==
    { QuizInput("t2", "d2", NullText, TRUE, qs) :
          qs \in UpdateQuestionLists \cup InvalidQuestionLists }
    \cup { QuizInput("t2", NullText, "i2", FALSE, <<>>),
           QuizInput(NullText, NullText, NullText, FALSE, <<>>) }

-----------------------------------------------------------------------------
(* Validation schemas *)

\* z.array(ChoiceSchema).min(2).max(4).refine(some isCorrect)
QuestionSchema(q) ==
    /\ q.questionText # NullText
    /\ q.points >= 0
    /\ Len(q.choices) >= 2
    /\ Len(q.choices) <= 4
    /\ \E i \in 1..Len(q.choices) : q.choices[i].isCorrect
    /\ \A i \in 1..Len(q.choices) : q.choices[i].choiceText # NullText

\* CreateQuizSchema without the questions field: only the title is validated
CreateQuizSchema_TitleOnly(in) == in.title # NullText

\* title required; questions: array of QuestionSchema, min(1)
CreateQuizSchema(in) ==
    /\ in.title # NullText
    /\ Len(in.questions) >= 1
    /\ \A i \in 1..Len(in.questions) : QuestionSchema(in.questions[i])

\* title required; questions optional, but min(1) and QuestionSchema when present
UpdateQuizSchema(in) ==
    /\ in.title # NullText
    /\ in.hasQuestions =>
          /\ Len(in.questions) >= 1
          /\ \A i \in 1..Len(in.questions) : QuestionSchema(in.questions[i])

\* attemptId non-empty; responses: array of {questionId, choiceId}, min(1)
SubmitAttemptSchema(attemptId, responses) ==
    /\ attemptId # NoId
    /\ Len(responses) >= 1
    /\ \A i \in 1..Len(responses) :
          responses[i].questionId # NoId /\ responses[i].choiceId # NullChoice

-----------------------------------------------------------------------------
(* Persistence gateway and identifiers *)

\* crypto.randomUUID(): a fresh, never reused identifier per row.  Question ids
\* come from a counter; a choice is named by its question and position and a
\* response row by its attempt, question and copy number, which is unique
\* because question ids are never reused.
GenChoiceId(questionId, choiceOrder) == <<questionId, choiceOrder>>

GenResponseId(attemptId, questionId, copy) == <<attemptId, questionId, copy>>

\* a choice id that names no row, as a client may send any string
BogusChoice == <<NoId, NoId>>

RECURSIVE SumPoints(_)
SumPoints(qs) == IF qs = <<>> THEN 0 ELSE Head(qs).points + SumPoints(Tail(qs))

RECURSIVE Gcd(_, _)
Gcd(a, b) == IF b = 0 THEN a ELSE Gcd(b, a % b)

\* (score / totalPoints) * 100 without the 'totalPoints > 0' test: 0 / 0 is NaN,
\* the fraction with denominator 0
Percentage_Unguarded(score, totalPoints) ==
    LET g == Gcd(score * 100, totalPoints)
        d == IF g = 0 THEN 1 ELSE g
    IN  <<(score * 100) \div d, totalPoints \div d>>

\* totalPoints > 0 ? (score / totalPoints) * 100 : 0, kept as an exact reduced
\* fraction <<numerator, denominator>> instead of a float
Percentage(score, totalPoints) ==
    IF totalPoints > 0
      THEN LET g == Gcd(score * 100, totalPoints)
           IN  <<(score * 100) \div g, totalPoints \div g>>
      ELSE <<0, 1>>

-----------------------------------------------------------------------------
(* Quiz store *)

NoQuiz == [id |-> NoId, title |-> NullText, description |-> NullText,
           instructions |-> NullText, created_by |-> NoUser,
           created_at |-> NullTime, updated_at |-> NullTime, is_active |-> 0]

QuizRow(quizId) == IF quizId \in 1..Len(quizzes) THEN quizzes[quizId] ELSE NoQuiz

\* SELECT * FROM quizzes WHERE id = ?1, without the is_active = 1 condition
getQuizById_AnyState(quizId) == QuizRow(quizId)

\* SELECT * FROM quizzes WHERE id = ?1 AND is_active = 1
getQuizById(quizId) ==
    IF QuizRow(quizId).is_active = 1 THEN QuizRow(quizId) ELSE NoQuiz

\* an existence check that looks the row up whatever its is_active
quizExists_AnyState(quizId) == QuizRow(quizId) # NoQuiz

quizExists(quizId) == getQuizById(quizId) # NoQuiz

\* an ownership check that only looks the quiz up and ignores created_by
isQuizOwner_AnyUser(quizId, userId) == getQuizById(quizId) # NoQuiz

isQuizOwner(quizId, userId) ==
    getQuizById(quizId) # NoQuiz /\ getQuizById(quizId).created_by = userId

\* ids of the rows of SELECT ... FROM quizzes q ... WHERE q.is_active = 1
getAllQuizzes == { i \in 1..Len(quizzes) : quizzes[i].is_active = 1 }

\* ids of the rows of SELECT ... WHERE q.created_by = ?1 AND q.is_active = 1
getQuizzesByUser(userId) ==
    { i \in 1..Len(quizzes) : quizzes[i].created_by = userId /\ quizzes[i].is_active = 1 }

-----------------------------------------------------------------------------
(* Question store and choice store *)

NoQuestion == [id |-> NoId, quiz_id |-> NoId, question_text |-> NullText,
               question_order |-> 0, points |-> 0]

RECURSIVE OrderedQuestions(_)
OrderedQuestions(S) ==
    IF S = {} THEN <<>>
    ELSE LET m == CHOOSE r \in S : \A o \in S :
                      \/ r.question_order < o.question_order
                      \/ r.question_order = o.question_order /\ r.id <= o.id
         IN  <<m>> \o OrderedQuestions(S \ {m})

\* SELECT * FROM questions WHERE quiz_id = ?1 ORDER BY question_order ASC
\* (rows of equal question_order come in insertion order)
getQuestionsByQuiz(quizId) == OrderedQuestions({ q \in questions : q.quiz_id = quizId })

\* SELECT * FROM questions WHERE id = ?1
getQuestionById(questionId) ==
    IF \E q \in questions : q.id = questionId
      THEN CHOOSE q \in questions : q.id = questionId
      ELSE NoQuestion

RECURSIVE OrderedChoices(_)
OrderedChoices(S) ==
    IF S = {} THEN <<>>
    ELSE LET m == CHOOSE r \in S : \A o \in S :
                      \/ r.choice_order < o.choice_order
                      \/ r.choice_order = o.choice_order /\ r.id[2] <= o.id[2]
         IN  <<m>> \o OrderedChoices(S \ {m})

\* SELECT * FROM choices WHERE question_id = ?1 ORDER BY choice_order ASC
getChoicesByQuestion(questionId) ==
    OrderedChoices({ c \in choices : c.question_id = questionId })

\* rows of createQuestionsBatch: questionOrder = index + 1, points = q.points || 1,
\* ids generated in input order
NewQuestionRows(quizId, qs, firstId) ==
    { [id |-> firstId + i - 1, quiz_id |-> quizId, question_text |-> qs[i].questionText,
       question_order |-> i, points |-> IF qs[i].points = NoPoints THEN 1 ELSE qs[i].points]
      : i \in 1..Len(qs) }

\* createdQuestionIds of createQuestionsBatch
NewQuestionIds(qs, firstId) == [i \in 1..Len(qs) |-> firstId + i - 1]

\* rows of createChoicesBatch for choicesToCreate: question i of the input gets
\* createdQuestionIds[i], choiceOrder = choiceIndex + 1, is_correct = isCorrect ? 1 : 0
NewChoiceRows(qs, ids) ==
    UNION { { [id |-> GenChoiceId(ids[i], j), question_id |-> ids[i],
               choice_text |-> qs[i].choices[j].choiceText, choice_order |-> j,
               is_correct |-> IF qs[i].choices[j].isCorrect THEN 1 ELSE 0]
              : j \in 1..Len(qs[i].choices) }
            : i \in 1..Len(qs) }

\* DELETE FROM questions WHERE id = ?1 with the foreign keys of the migrations:
\* choices.question_id and attempt_responses.question_id ON DELETE CASCADE
QuestionsAfterDelete(questionId) == { q \in questions : q.id # questionId }

ChoicesAfterDelete(questionId) == { c \in choices : c.question_id # questionId }

ResponsesAfterDelete(questionId) ==
    { r \in attempt_responses : r.question_id # questionId }

-----------------------------------------------------------------------------
(* Attempt store *)

NoAttempt == [id |-> NoId, user_id |-> NoUser, quiz_id |-> NoId, score |-> 0,
              total_points |-> 0, percentage |-> <<0, 1>>, started_at |-> NullTime,
              submitted_at |-> NullTime, time_taken_seconds |-> NullSeconds]

\* SELECT * FROM attempts WHERE id = ?1
getAttemptById(attemptId) ==
    IF attemptId \in 1..Len(attempts) THEN attempts[attemptId] ELSE NoAttempt

\* an ownership check that only looks the attempt up and ignores user_id
isAttemptOwner_AnyUser(attemptId, userId) == getAttemptById(attemptId) # NoAttempt

isAttemptOwner(attemptId, userId) ==
    getAttemptById(attemptId) # NoAttempt /\ getAttemptById(attemptId).user_id = userId

\* SELECT * FROM attempt_responses WHERE attempt_id = ?1
getAttemptResponses(attemptId) == { r \in attempt_responses : r.attempt_id = attemptId }

\* ids of the rows of SELECT * FROM attempts WHERE user_id = ?1
getUserAttempts(userId) == { a \in 1..Len(attempts) : attempts[a].user_id = userId }

\* INSERT INTO attempts (...) VALUES (id, user, quiz, 0, totalPoints, 0, now, null)
NewAttemptRow(attemptId, userId, quizId, totalPoints, now) ==
    [id |-> attemptId, user_id |-> userId, quiz_id |-> quizId, score |-> 0,
     total_points |-> totalPoints, percentage |-> <<0, 1>>, started_at |-> now,
     submitted_at |-> NullTime, time_taken_seconds |-> NullSeconds]

-----------------------------------------------------------------------------
(* Request slots *)

\* A storage call may fail (network, engine).  The failure is modelled at every
\* write that follows an earlier write of the same request, where it leaves
\* that earlier write behind; a request whose first write fails has changed
\* nothing.

NoInput == QuizInput(NullText, NullText, NullText, FALSE, <<>>)

NoResult == [success |-> FALSE, error |-> "", data |-> <<>>]

Success(data) == [success |-> TRUE, error |-> "", data |-> data]

Failure(message) == [success |-> FALSE, error |-> message, data |-> <<>>]

\* error.message of a ZodError thrown by Schema.parse
ValidationError == "validation"

\* error.message of a failed statement or batch (network / engine)
StorageError == "storage"

\* error.message of a rejected INSERT whose parent row is missing
ForeignKeyError == "FOREIGN KEY constraint failed"

\* error.message of reading a property of undefined
TypeError == "Cannot read properties of undefined"

Idle == [pc |-> "idle", op |-> "none", user |-> NoUser, quizId |-> NoId,
         attemptId |-> NoId, input |-> NoInput, responses |-> <<>>, rows |-> <<>>,
         ids |-> <<>>, attempt |-> NoAttempt, questionResults |-> <<>>, score |-> 0,
         totalPoints |-> 0, now |-> NullTime, result |-> NoResult]

\* whether a storage call succeeds; at most MaxFailures calls fail
Outcomes == IF failures < MaxFailures THEN {TRUE, FALSE} ELSE {TRUE}

Free(p) == proc[p].pc \in {"idle", "done"}

CanCall(p) == Free(p) /\ \A q \in Procs : q < p => ~Free(q)

\* the action returns: the slot keeps the call it served and what came back
Return(p, result) ==
    proc' = [proc EXCEPT ![p] = [Idle EXCEPT !.pc = "done", !.op = proc[p].op,
                                            !.user = proc[p].user,
                                            !.quizId = proc[p].quizId,
                                            !.attemptId = proc[p].attemptId,
                                            !.input = proc[p].input,
                                            !.responses = proc[p].responses,
                                            !.result = result]]

Goto(p, pc) == proc' = [proc EXCEPT ![p].pc = pc]

\* question ids a request will still draw from generateId
PendingQuestionIds(p) ==
    IF proc[p].pc \in {"createQuiz", "createQuiz_readQuiz", "createQuiz_questions",
                       "updateQuiz", "updateQuiz_meta", "updateQuiz_metaRead",
                       "updateQuiz_readQuestions", "updateQuiz_delete",
                       "updateQuiz_questions"}
       /\ proc[p].input.hasQuestions
      THEN Len(proc[p].input.questions)
      ELSE 0

RECURSIVE PendingQuestionIdsOf(_)
PendingQuestionIdsOf(S) ==
    IF S = {} THEN 0
    ELSE LET x == CHOOSE y \in S : TRUE
         IN  PendingQuestionIds(x) + PendingQuestionIdsOf(S \ {x})

QuestionIdsLeft == MaxQuestionIds - (nextQuestionId - 1) - PendingQuestionIdsOf(Procs)

QuizzesLeft == MaxQuizzes - Len(quizzes) - Cardinality({ p \in Procs : proc[p].pc = "createQuiz" })

-----------------------------------------------------------------------------
(* createQuiz server action *)

\* the author with every input, and an unauthenticated caller
CreateCalls ==
    { [user |-> Author, input |-> in] : in \in CreateInputs }
      \cup { [user |-> NoUser, input |-> QuizInput("t1", NullText, NullText, TRUE, qs)] :
                qs \in CreateQuestionLists }

Call_createQuiz(p) ==
    /\ CanCall(p)
    /\ QuizzesLeft > 0
    /\ \E c \in CreateCalls :
          /\ Len(c.input.questions) <= QuestionIdsLeft
          /\ proc' = [proc EXCEPT ![p] = [Idle EXCEPT !.pc = "createQuiz",
                                                 !.op = "createQuiz",
                                                 !.user = c.user, !.input = c.input]]
    /\ UNCHANGED <<db, nextQuestionId, clock, failures>>

\* INSERT INTO quizzes (...) VALUES (id, title, description || null,
\* instructions || null, createdBy, now, now, 1)
NewQuizRow(quizId, in, userId, now) ==
    [id |-> quizId, title |-> in.title, description |-> in.description,
     instructions |-> in.instructions, created_by |-> userId,
     created_at |-> now, updated_at |-> now, is_active |-> 1]

\* getCurrentUser, CreateQuizSchema.parse, then quizService.createQuiz's INSERT
createQuiz_InsertQuiz(p) ==
    /\ proc[p].pc = "createQuiz"
    /\ IF proc[p].user = NoUser
         THEN Return(p, Failure("Authentication required")) /\ UNCHANGED quizzes
       ELSE IF ~CreateQuizSchema(proc[p].input)
         THEN Return(p, Failure(ValidationError)) /\ UNCHANGED quizzes
       ELSE /\ quizzes' = Append(quizzes,
                  NewQuizRow(Len(quizzes) + 1, proc[p].input, proc[p].user, clock))
            /\ proc' = [proc EXCEPT ![p].pc = "createQuiz_readQuiz",
                                    ![p].quizId = Len(quizzes) + 1]
    /\ UNCHANGED <<questions, choices, attempts, attempt_responses, nextQuestionId, clock, failures>>

\* quizService.createQuiz: getQuizById after the INSERT
createQuiz_ReadQuiz(p) ==
    /\ proc[p].pc = "createQuiz_readQuiz"
    /\ IF getQuizById(proc[p].quizId) = NoQuiz
         THEN Return(p, Failure("Failed to create quiz"))
         ELSE Goto(p, "createQuiz_questions")
    /\ UNCHANGED <<db, nextQuestionId, clock, failures>>

\* questionService.createQuestionsBatch: one atomic batch of INSERTs
createQuiz_QuestionsBatch(p) ==
    /\ proc[p].pc = "createQuiz_questions"
    /\ \E ok \in Outcomes :
         IF ok
           THEN /\ questions' = questions \cup
                      NewQuestionRows(proc[p].quizId, proc[p].input.questions,
                                      nextQuestionId)
                /\ nextQuestionId' = nextQuestionId + Len(proc[p].input.questions)
                /\ proc' = [proc EXCEPT ![p].pc = "createQuiz_choices",
                                        ![p].ids = NewQuestionIds(proc[p].input.questions,
                                                                  nextQuestionId)]
           ELSE /\ Return(p, Failure(StorageError))
                /\ nextQuestionId' = nextQuestionId + Len(proc[p].input.questions)
                /\ UNCHANGED questions
    /\ failures' = IF proc'[p].result.error = StorageError THEN failures + 1 ELSE failures
    /\ UNCHANGED <<quizzes, choices, attempts, attempt_responses, clock>>

\* choices.question_id REFERENCES questions(id): every parent row must exist
ChoiceParentsExist(ids) == \A i \in 1..Len(ids) : \E q \in questions : q.id = ids[i]

\* choiceService.createChoicesBatch: one atomic batch of INSERTs
createQuiz_ChoicesBatch(p) ==
    /\ proc[p].pc = "createQuiz_choices"
    /\ IF ~ChoiceParentsExist(proc[p].ids)
         THEN Return(p, Failure(ForeignKeyError)) /\ UNCHANGED choices
         ELSE \E ok \in Outcomes :
                IF ok
                  THEN /\ choices' = choices \cup
                             NewChoiceRows(proc[p].input.questions, proc[p].ids)
                       /\ Goto(p, "createQuiz_return")
                  ELSE Return(p, Failure(StorageError)) /\ UNCHANGED choices
    /\ failures' = IF proc'[p].result.error = StorageError THEN failures + 1 ELSE failures
    /\ UNCHANGED <<quizzes, questions, attempts, attempt_responses, nextQuestionId, clock>>

\* quizService.getQuizById(db, quiz.id) and the action's result
createQuiz_Return(p) ==
    /\ proc[p].pc = "createQuiz_return"
    /\ IF getQuizById(proc[p].quizId) = NoQuiz
         THEN Return(p, Failure("Failed to retrieve created quiz"))
         ELSE Return(p, Success(<<getQuizById(proc[p].quizId)>>))
    /\ UNCHANGED <<db, nextQuestionId, clock, failures>>

-----------------------------------------------------------------------------
(* updateQuiz server action *)

\* a quiz id that names no row
MissingQuiz == Len(quizzes) + 1

ReplaceInputs == { QuizInput("t2", "d2", NullText, TRUE, qs) : qs \in UpdateQuestionLists }

\* the author with every input on every quiz; another user, an unauthenticated
\* caller and a missing quiz with a replacement the schema accepts
UpdateCalls ==
    { [user |-> Author, quizId |-> q, input |-> in] :
          q \in 1..Len(quizzes), in \in UpdateInputs }
      \cup { [user |-> u, quizId |-> q, input |-> in] :
                u \in {Taker, NoUser}, q \in 1..Len(quizzes), in \in ReplaceInputs }
      \cup { [user |-> Author, quizId |-> MissingQuiz, input |-> in] : in \in ReplaceInputs }

Call_updateQuiz(p) ==
    /\ CanCall(p)
    /\ \E c \in UpdateCalls :
          /\ Len(c.input.questions) <= QuestionIdsLeft
          /\ proc' = [proc EXCEPT ![p] = [Idle EXCEPT !.pc = "updateQuiz",
                                                 !.op = "updateQuiz", !.user = c.user,
                                                 !.quizId = c.quizId, !.input = c.input]]
    /\ UNCHANGED <<db, nextQuestionId, clock, failures>>

\* the branch conditions after UpdateQuizSchema.parse
UpdatesMetadata(in) ==
    in.title # NullText \/ in.description # NullText \/ in.instructions # NullText

\* the replacement branch entered whatever the request carries
AfterMetadata_AlwaysReplace(in) == "updateQuiz_readQuestions"

AfterMetadata(in) == IF in.hasQuestions THEN "updateQuiz_readQuestions" ELSE "updateQuiz_return"

\* getCurrentUser, quizService.isQuizOwner, UpdateQuizSchema.parse
updateQuiz_CheckOwner(p) ==
    /\ proc[p].pc = "updateQuiz"
    /\ IF proc[p].user = NoUser
         THEN Return(p, Failure("Authentication required"))
       ELSE IF ~isQuizOwner(proc[p].quizId, proc[p].user)
         THEN Return(p, Failure("You do not have permission to edit this quiz"))
       ELSE IF ~UpdateQuizSchema(proc[p].input)
         THEN Return(p, Failure(ValidationError))
       ELSE IF UpdatesMetadata(proc[p].input)
         THEN Goto(p, "updateQuiz_meta")
         ELSE Goto(p, AfterMetadata(proc[p].input))
    /\ UNCHANGED <<db, nextQuestionId, clock, failures>>

\* UPDATE quizzes SET title = ?, [description = ?,] [instructions = ?,]
\* updated_at = ? WHERE id = ?  (a column is set when its field is not undefined)
UpdatedQuizRow(row, in, now) ==
    [row EXCEPT !.title = IF in.title # NullText THEN in.title ELSE @,
                !.description = IF in.description # NullText THEN in.description ELSE @,
                !.instructions = IF in.instructions # NullText THEN in.instructions ELSE @,
                !.updated_at = now]

\* quizService.updateQuiz: the UPDATE
updateQuiz_Meta(p) ==
    /\ proc[p].pc = "updateQuiz_meta"
    /\ quizzes' = [quizzes EXCEPT ![proc[p].quizId] =
                        UpdatedQuizRow(@, proc[p].input, clock)]
    /\ Goto(p, "updateQuiz_metaRead")
    /\ UNCHANGED <<questions, choices, attempts, attempt_responses, nextQuestionId, clock, failures>>

\* quizService.updateQuiz: getQuizById after the UPDATE
updateQuiz_MetaRead(p) ==
    /\ proc[p].pc = "updateQuiz_metaRead"
    /\ IF getQuizById(proc[p].quizId) = NoQuiz
         THEN Return(p, Failure("Quiz not found"))
         ELSE Goto(p, AfterMetadata(proc[p].input))
    /\ UNCHANGED <<db, nextQuestionId, clock, failures>>

\* existingQuestions = questionService.getQuestionsByQuiz(db, quizId)
updateQuiz_ReadQuestions(p) ==
    /\ proc[p].pc = "updateQuiz_readQuestions"
    /\ proc' = [proc EXCEPT ![p].rows = getQuestionsByQuiz(proc[p].quizId),
                            ![p].pc = IF getQuestionsByQuiz(proc[p].quizId) = <<>>
                                        THEN "updateQuiz_questions"
                                        ELSE "updateQuiz_delete"]
    /\ UNCHANGED <<db, nextQuestionId, clock, failures>>

\* one iteration of: for (question of existingQuestions) deleteQuestion(db, question.id)
updateQuiz_DeleteQuestion(p) ==
    /\ proc[p].pc = "updateQuiz_delete"
    /\ \E ok \in Outcomes :
         IF ok
           THEN /\ questions' = QuestionsAfterDelete(Head(proc[p].rows).id)
                /\ choices' = ChoicesAfterDelete(Head(proc[p].rows).id)
                /\ attempt_responses' = ResponsesAfterDelete(Head(proc[p].rows).id)
                /\ proc' = [proc EXCEPT ![p].rows = Tail(proc[p].rows),
                                        ![p].pc = IF Tail(proc[p].rows) = <<>>
                                                    THEN "updateQuiz_questions"
                                                    ELSE "updateQuiz_delete"]
           ELSE /\ Return(p, Failure(StorageError))
                /\ UNCHANGED <<questions, choices, attempt_responses>>
    /\ failures' = IF proc'[p].result.error = StorageError THEN failures + 1 ELSE failures
    /\ UNCHANGED <<quizzes, attempts, nextQuestionId, clock>>

\* questionService.createQuestionsBatch for the replacement list
updateQuiz_QuestionsBatch(p) ==
    /\ proc[p].pc = "updateQuiz_questions"
    /\ \E ok \in Outcomes :
         IF ok
           THEN /\ questions' = questions \cup
                      NewQuestionRows(proc[p].quizId, proc[p].input.questions,
                                      nextQuestionId)
                /\ nextQuestionId' = nextQuestionId + Len(proc[p].input.questions)
                /\ proc' = [proc EXCEPT ![p].pc = "updateQuiz_choices",
                                        ![p].ids = NewQuestionIds(proc[p].input.questions,
                                                                  nextQuestionId)]
           ELSE /\ Return(p, Failure(StorageError))
                /\ nextQuestionId' = nextQuestionId + Len(proc[p].input.questions)
                /\ UNCHANGED questions
    /\ failures' = IF proc'[p].result.error = StorageError THEN failures + 1 ELSE failures
    /\ UNCHANGED <<quizzes, choices, attempts, attempt_responses, clock>>

\* choiceService.createChoicesBatch for the replacement list
updateQuiz_ChoicesBatch(p) ==
    /\ proc[p].pc = "updateQuiz_choices"
    /\ IF ~ChoiceParentsExist(proc[p].ids)
         THEN Return(p, Failure(ForeignKeyError)) /\ UNCHANGED choices
         ELSE \E ok \in Outcomes :
                IF ok
                  THEN /\ choices' = choices \cup
                             NewChoiceRows(proc[p].input.questions, proc[p].ids)
                       /\ Goto(p, "updateQuiz_return")
                  ELSE Return(p, Failure(StorageError)) /\ UNCHANGED choices
    /\ failures' = IF proc'[p].result.error = StorageError THEN failures + 1 ELSE failures
    /\ UNCHANGED <<quizzes, questions, attempts, attempt_responses, nextQuestionId, clock>>

\* quizService.getQuizById(db, quizId) and the action's result
updateQuiz_Return(p) ==
    /\ proc[p].pc = "updateQuiz_return"
    /\ IF getQuizById(proc[p].quizId) = NoQuiz
         THEN Return(p, Failure("Failed to retrieve updated quiz"))
         ELSE Return(p, Success(<<getQuizById(proc[p].quizId)>>))
    /\ UNCHANGED <<db, nextQuestionId, clock, failures>>

-----------------------------------------------------------------------------
(* deleteQuiz server action *)

DeleteCalls ==
    { [user |-> u, quizId |-> q] : u \in Users \cup {NoUser}, q \in 1..Len(quizzes) }
      \cup { [user |-> Author, quizId |-> MissingQuiz] }

Call_deleteQuiz(p) ==
    /\ CanCall(p)
    /\ \E c \in DeleteCalls :
          proc' = [proc EXCEPT ![p] = [Idle EXCEPT !.pc = "deleteQuiz",
                                              !.op = "deleteQuiz", !.user = c.user,
                                              !.quizId = c.quizId]]
    /\ UNCHANGED <<db, nextQuestionId, clock, failures>>

\* deleteQuiz without the getCurrentUser guard (lines 295-298 left out)
deleteQuiz_CheckOwner_NoAuth(p) ==
    /\ proc[p].pc = "deleteQuiz"
    /\ IF ~isQuizOwner(proc[p].quizId, proc[p].user)
         THEN Return(p, Failure("You do not have permission to delete this quiz"))
         ELSE Goto(p, "deleteQuiz_update")
    /\ UNCHANGED <<db, nextQuestionId, clock, failures>>

\* getCurrentUser, quizService.isQuizOwner
deleteQuiz_CheckOwner(p) ==
    /\ proc[p].pc = "deleteQuiz"
    /\ IF proc[p].user = NoUser
         THEN Return(p, Failure("Authentication required"))
       ELSE IF ~isQuizOwner(proc[p].quizId, proc[p].user)
         THEN Return(p, Failure("You do not have permission to delete this quiz"))
         ELSE Goto(p, "deleteQuiz_update")
    /\ UNCHANGED <<db, nextQuestionId, clock, failures>>

\* quizService.deleteQuiz: UPDATE quizzes SET is_active = 0, updated_at = ?1 WHERE id = ?2
deleteQuiz_Update(p) ==
    /\ proc[p].pc = "deleteQuiz_update"
    /\ quizzes' = [quizzes EXCEPT ![proc[p].quizId].is_active = 0,
                                   ![proc[p].quizId].updated_at = clock]
    /\ Return(p, Success(<<>>))
    /\ UNCHANGED <<questions, choices, attempts, attempt_responses, nextQuestionId, clock, failures>>

-----------------------------------------------------------------------------
(* getMyQuizzes server action *)

Call_getMyQuizzes(p) ==
    /\ CanCall(p)
    /\ \E u \in {Author, NoUser} :
          proc' = [proc EXCEPT ![p] = [Idle EXCEPT !.pc = "myQuizzes",
                                              !.op = "getMyQuizzes", !.user = u]]
    /\ UNCHANGED <<db, nextQuestionId, clock, failures>>

\* getCurrentUser, quizService.getQuizzesByUser and the action's result
getMyQuizzes_Read(p) ==
    /\ proc[p].pc = "myQuizzes"
    /\ IF proc[p].user = NoUser
         THEN Return(p, Failure("Authentication required"))
         ELSE Return(p, Success(<<getQuizzesByUser(proc[p].user)>>))
    /\ UNCHANGED <<db, nextQuestionId, clock, failures>>

-----------------------------------------------------------------------------
(* startQuizAttempt server action *)

AttemptsLeft ==
    MaxAttempts - Len(attempts)
      - Cardinality({ p \in Procs : proc[p].pc \in {"start", "start_readQuestions",
                                                    "start_checkChoices", "start_insert"} })

StartCalls ==
    { [user |-> u, quizId |-> q] : u \in {Taker, NoUser}, q \in 1..Len(quizzes) }
      \cup { [user |-> Taker, quizId |-> MissingQuiz] }

Call_startQuizAttempt(p) ==
    /\ CanCall(p)
    /\ AttemptsLeft > 0
    /\ \E c \in StartCalls :
          proc' = [proc EXCEPT ![p] = [Idle EXCEPT !.pc = "start",
                                              !.op = "startQuizAttempt", !.user = c.user,
                                              !.quizId = c.quizId]]
    /\ UNCHANGED <<db, nextQuestionId, clock, failures>>

\* getCurrentUser, quizService.quizExists
start_CheckQuiz(p) ==
    /\ proc[p].pc = "start"
    /\ IF proc[p].user = NoUser
         THEN Return(p, Failure("Authentication required"))
       ELSE IF ~quizExists(proc[p].quizId)
         THEN Return(p, Failure("Quiz not found"))
         ELSE Goto(p, "start_readQuestions")
    /\ UNCHANGED <<db, nextQuestionId, clock, failures>>

\* startAttempt: now, then questions = getQuestionsByQuiz(db, quizId)
start_ReadQuestions(p) ==
    /\ proc[p].pc = "start_readQuestions"
    /\ IF getQuestionsByQuiz(proc[p].quizId) = <<>>
         THEN Return(p, Failure("Cannot start attempt: Quiz has no questions"))
         ELSE proc' = [proc EXCEPT ![p].pc = "start_checkChoices",
                                   ![p].now = clock,
                                   ![p].rows = getQuestionsByQuiz(proc[p].quizId),
                                   ![p].totalPoints =
                                       SumPoints(getQuestionsByQuiz(proc[p].quizId))]
    /\ UNCHANGED <<db, nextQuestionId, clock, failures>>

\* one iteration of: for (question of questions) getChoicesByQuestion(db, question.id)
start_CheckChoices(p) ==
    /\ proc[p].pc = "start_checkChoices"
    /\ IF getChoicesByQuestion(Head(proc[p].rows).id) = <<>>
         THEN Return(p, Failure("Cannot start attempt: Question has no choices"))
         ELSE proc' = [proc EXCEPT ![p].rows = Tail(proc[p].rows),
                                   ![p].pc = IF Tail(proc[p].rows) = <<>>
                                               THEN "start_insert"
                                               ELSE "start_checkChoices"]
    /\ UNCHANGED <<db, nextQuestionId, clock, failures>>

\* startAttempt: INSERT INTO attempts
start_Insert(p) ==
    /\ proc[p].pc = "start_insert"
    /\ attempts' = Append(attempts,
           NewAttemptRow(Len(attempts) + 1, proc[p].user, proc[p].quizId,
                         proc[p].totalPoints, proc[p].now))
    /\ proc' = [proc EXCEPT ![p].pc = "start_return",
                            ![p].attemptId = Len(attempts) + 1]
    /\ UNCHANGED <<quizzes, questions, choices, attempt_responses, nextQuestionId, clock, failures>>

\* startAttempt: getAttemptById(db, attemptId) and the action's result
start_Return(p) ==
    /\ proc[p].pc = "start_return"
    /\ IF getAttemptById(proc[p].attemptId) = NoAttempt
         THEN Return(p, Failure("Failed to create attempt"))
         ELSE Return(p, Success(<<getAttemptById(proc[p].attemptId)>>))
    /\ UNCHANGED <<db, nextQuestionId, clock, failures>>

-----------------------------------------------------------------------------
(* Scoring *)

Response(questionId, choiceId) == [questionId |-> questionId, choiceId |-> choiceId]

\* responseMap built by responses.forEach(r => responseMap.set(r.questionId, r.choiceId)),
\* then responseMap.get(questionId): the last entry for the question wins
RECURSIVE ResponseMapGet(_, _)
ResponseMapGet(responses, questionId) ==
    IF responses = <<>> THEN NullChoice
    ELSE IF responses[Len(responses)].questionId = questionId
      THEN responses[Len(responses)].choiceId
      ELSE ResponseMapGet(SubSeq(responses, 1, Len(responses) - 1), questionId)

\* choices.find((c) => c.id === selectedChoiceId) finds a row
FindsChoice(cs, selectedChoiceId) == \E i \in 1..Len(cs) : cs[i].id = selectedChoiceId

FoundChoice(cs, selectedChoiceId) ==
    cs[CHOOSE i \in 1..Len(cs) : cs[i].id = selectedChoiceId]

\* correctChoices = choices.filter(is_correct === 1); correctChoices[0].id or null
CorrectChoiceId(cs) ==
    IF \E i \in 1..Len(cs) : cs[i].is_correct = 1
      THEN cs[CHOOSE i \in 1..Len(cs) :
                 cs[i].is_correct = 1 /\ \A j \in 1..(i - 1) : cs[j].is_correct # 1].id
      ELSE NullChoice

\* a loop body without the 'choices.length === 0' branch: the lookup that finds
\* no row is dereferenced for a question without choices too
ScoreThrows_Unguarded(cs, selectedChoiceId) ==
    /\ selectedChoiceId # NullChoice
    /\ ~FindsChoice(cs, selectedChoiceId)

\* the loop body of calculateScore dereferences selectedChoice.is_correct with
\* selectedChoice undefined: a choice id was sent and find() returned no row
ScoreThrows(cs, selectedChoiceId) ==
    /\ Len(cs) > 0
    /\ selectedChoiceId # NullChoice
    /\ ~FindsChoice(cs, selectedChoiceId)

\* a loop body that consults the response table: a question that already has a
\* stored response earns nothing
QuestionResult_OncePerQuestion(question, cs, selectedChoiceId) ==
    LET isCorrect == /\ Len(cs) > 0
                     /\ selectedChoiceId # NullChoice
                     /\ FoundChoice(cs, selectedChoiceId).is_correct = 1
                     /\ ~\E r \in attempt_responses : r.question_id = question.id
    IN  [questionId |-> question.id, isCorrect |-> isCorrect,
         pointsEarned |-> IF isCorrect THEN question.points ELSE 0,
         selectedChoiceId |-> selectedChoiceId,
         correctChoiceId |-> CorrectChoiceId(cs)]

\* the QuestionResult pushed by one iteration of calculateScore's loop
QuestionResult(question, cs, selectedChoiceId) ==
    IF Len(cs) = 0
      THEN [questionId |-> question.id, isCorrect |-> FALSE, pointsEarned |-> 0,
            selectedChoiceId |-> selectedChoiceId, correctChoiceId |-> NullChoice]
      ELSE LET isCorrect == /\ selectedChoiceId # NullChoice
                            /\ FoundChoice(cs, selectedChoiceId).is_correct = 1
           IN  [questionId |-> question.id, isCorrect |-> isCorrect,
                pointsEarned |-> IF isCorrect THEN question.points ELSE 0,
                selectedChoiceId |-> selectedChoiceId,
                correctChoiceId |-> CorrectChoiceId(cs)]

ScoringResult(score, totalPoints, questionResults) ==
    [score |-> score, totalPoints |-> totalPoints,
     percentage |-> Percentage(score, totalPoints), questionResults |-> questionResults]

-----------------------------------------------------------------------------
(* submitQuizAttempt server action *)

\* an attempt id that names no row
MissingAttempt == Len(attempts) + 1

LiveQuestionIds(quizId) == { q.id : q \in { r \in questions : r.quiz_id = quizId } }

FirstQuestionId(quizId) ==
    CHOOSE q \in LiveQuestionIds(quizId) : \A o \in LiveQuestionIds(quizId) : q <= o

\* response lists of the form field 'responses' for a quiz: none; one answer to
\* the first question naming its first or second choice, the first choice of
\* another stored question (of this or of another quiz), or a choice id that
\* names no row; and an answer to every question naming the second choice of each
ResponseInputs(quizId) ==
    IF LiveQuestionIds(quizId) = {} THEN { <<>>, <<Response(1, BogusChoice)>> }
    ELSE LET first == FirstQuestionId(quizId)
             all == getQuestionsByQuiz(quizId)
         IN  { <<>>,
               <<Response(first, GenChoiceId(first, 1))>>,
               <<Response(first, GenChoiceId(first, 2))>>,
               <<Response(first, BogusChoice)>>,
               [i \in 1..Len(all) |-> Response(all[i].id, GenChoiceId(all[i].id, 2))] }
             \cup { <<Response(first, GenChoiceId(other, 1))>> :
                       other \in { q.id : q \in questions } \ {first} }

\* the owner of an attempt with every response list; another user with a list
\* the schema accepts and with the empty list; an unauthenticated caller; and a
\* missing attempt
SubmitCalls ==
    UNION { { [user |-> attempts[a].user_id, attemptId |-> a, responses |-> rs] :
                 rs \in ResponseInputs(attempts[a].quiz_id) } : a \in 1..Len(attempts) }
      \cup { [user |-> u, attemptId |-> a, responses |-> rs] :
                u \in {Author, NoUser}, a \in 1..Len(attempts),
                rs \in { <<>>, <<Response(1, BogusChoice)>> } }
      \cup { [user |-> Taker, attemptId |-> MissingAttempt,
               responses |-> <<Response(1, BogusChoice)>>] }

Call_submitQuizAttempt(p) ==
    /\ CanCall(p)
    /\ \E c \in SubmitCalls :
          proc' = [proc EXCEPT ![p] = [Idle EXCEPT !.pc = "submit",
                                              !.op = "submitQuizAttempt", !.user = c.user,
                                              !.attemptId = c.attemptId,
                                              !.responses = c.responses]]
    /\ UNCHANGED <<db, nextQuestionId, clock, failures>>

\* getCurrentUser, SubmitAttemptSchema.parse, attemptService.isAttemptOwner
submit_CheckOwner(p) ==
    /\ proc[p].pc = "submit"
    /\ IF proc[p].user = NoUser
         THEN Return(p, Failure("Authentication required"))
       ELSE IF ~SubmitAttemptSchema(proc[p].attemptId, proc[p].responses)
         THEN Return(p, Failure(ValidationError))
       ELSE IF ~isAttemptOwner(proc[p].attemptId, proc[p].user)
         THEN Return(p, Failure("You do not have permission to submit this attempt"))
         ELSE Goto(p, "submit_readAttempt")
    /\ UNCHANGED <<db, nextQuestionId, clock, failures>>

\* submitAttempt without the submitted_at guard (lines 490-492 left out)
submit_ReadAttempt_Unguarded(p) ==
    /\ proc[p].pc = "submit_readAttempt"
    /\ IF getAttemptById(proc[p].attemptId) = NoAttempt
         THEN Return(p, Failure("Attempt not found"))
         ELSE proc' = [proc EXCEPT ![p].pc = "submit_readQuestions",
                                   ![p].attempt = getAttemptById(proc[p].attemptId)]
    /\ UNCHANGED <<db, nextQuestionId, clock, failures>>

\* submitAttempt: attempt = getAttemptById(db, attemptId) and the two guards
submit_ReadAttempt(p) ==
    /\ proc[p].pc = "submit_readAttempt"
    /\ IF getAttemptById(proc[p].attemptId) = NoAttempt
         THEN Return(p, Failure("Attempt not found"))
       ELSE IF getAttemptById(proc[p].attemptId).submitted_at # NullTime
         THEN Return(p, Failure("Attempt has already been submitted"))
         ELSE proc' = [proc EXCEPT ![p].pc = "submit_readQuestions",
                                   ![p].attempt = getAttemptById(proc[p].attemptId)]
    /\ UNCHANGED <<db, nextQuestionId, clock, failures>>

\* calculateScore: questions = getQuestionsByQuiz(db, quizId)
submit_ReadQuestions(p) ==
    /\ proc[p].pc = "submit_readQuestions"
    /\ proc' = [proc EXCEPT ![p].rows = getQuestionsByQuiz(proc[p].attempt.quiz_id),
                            ![p].pc = IF getQuestionsByQuiz(proc[p].attempt.quiz_id) = <<>>
                                        THEN "submit_insert"
                                        ELSE "submit_score"]
    /\ UNCHANGED <<db, nextQuestionId, clock, failures>>

\* calculateScore: one iteration of the loop over questions
submit_ScoreQuestion(p) ==
    /\ proc[p].pc = "submit_score"
    /\ LET question == Head(proc[p].rows)
           cs == getChoicesByQuestion(question.id)
           selectedChoiceId == ResponseMapGet(proc[p].responses, question.id)
           r == QuestionResult(question, cs, selectedChoiceId)
       IN  IF ScoreThrows(cs, selectedChoiceId)
             THEN Return(p, Failure(TypeError))
             ELSE proc' = [proc EXCEPT
                             ![p].totalPoints = @ + question.points,
                             ![p].score = @ + r.pointsEarned,
                             ![p].questionResults = Append(@, r),
                             ![p].rows = Tail(proc[p].rows),
                             ![p].pc = IF Tail(proc[p].rows) = <<>>
                                         THEN "submit_insert" ELSE "submit_score"]
    /\ UNCHANGED <<db, nextQuestionId, clock, failures>>

\* the rows of responseQueries: one INSERT per questionResult
NewResponseRows(attemptId, questionResults) ==
    { [id |-> GenResponseId(attemptId, questionResults[i].questionId,
                  1 + Cardinality({ r \in attempt_responses :
                                       /\ r.attempt_id = attemptId
                                       /\ r.question_id = questionResults[i].questionId })),
       attempt_id |-> attemptId,
       question_id |-> questionResults[i].questionId,
       choice_id |-> questionResults[i].selectedChoiceId,
       is_correct |-> IF questionResults[i].isCorrect THEN 1 ELSE 0,
       points_earned |-> questionResults[i].pointsEarned] : i \in 1..Len(questionResults) }

\* a response table without its foreign keys: every batch is accepted
ResponseParentsExist_Unchecked(rows) == rows = rows

\* attempt_responses.question_id REFERENCES questions(id),
\* attempt_responses.choice_id REFERENCES choices(id): parents must exist
ResponseParentsExist(rows) ==
    \A r \in rows :
       /\ \E q \in questions : q.id = r.question_id
       /\ r.choice_id = NullChoice \/ \E c \in choices : c.id = r.choice_id

\* submitAttempt: now, then executeBatch(db, responseQueries)
submit_InsertResponses(p) ==
    /\ proc[p].pc = "submit_insert"
    /\ LET rows == NewResponseRows(proc[p].attemptId, proc[p].questionResults)
       IN  IF ~ResponseParentsExist(rows)
             THEN Return(p, Failure(ForeignKeyError)) /\ UNCHANGED attempt_responses
             ELSE /\ attempt_responses' = attempt_responses \cup rows
                  /\ proc' = [proc EXCEPT ![p].pc = "submit_finalize",
                                          ![p].now = clock]
    /\ UNCHANGED <<quizzes, questions, choices, attempts, nextQuestionId, clock, failures>>

\* timeTaken = attempt.started_at ? now - attempt.started_at : null
TimeTaken(attempt, now) ==
    IF attempt.started_at # 0 THEN now - attempt.started_at ELSE NullSeconds

\* an UPDATE that also stamps started_at with the submission time
FinalizedAttemptRow_Restamped(row, score, percentage, now, timeTaken) ==
    [row EXCEPT !.score = score, !.percentage = percentage, !.started_at = now + 1,
                !.submitted_at = now, !.time_taken_seconds = timeTaken]

\* UPDATE attempts SET score = ?1, percentage = ?2, submitted_at = ?3,
\* time_taken_seconds = ?4 WHERE id = ?5
FinalizedAttemptRow(row, score, percentage, now, timeTaken) ==
    [row EXCEPT !.score = score, !.percentage = percentage,
                !.submitted_at = now, !.time_taken_seconds = timeTaken]

\* submitAttempt: the UPDATE of the attempt row
submit_Finalize(p) ==
    /\ proc[p].pc = "submit_finalize"
    /\ \E ok \in Outcomes :
         IF ok
           THEN /\ attempts' = [attempts EXCEPT ![proc[p].attemptId] =
                      FinalizedAttemptRow(@, proc[p].score,
                          Percentage(proc[p].score, proc[p].totalPoints), proc[p].now,
                          TimeTaken(proc[p].attempt, proc[p].now))]
                /\ Goto(p, "submit_return")
           ELSE Return(p, Failure(StorageError)) /\ UNCHANGED attempts
    /\ failures' = IF proc'[p].result.error = StorageError THEN failures + 1 ELSE failures
    /\ UNCHANGED <<quizzes, questions, choices, attempt_responses, nextQuestionId, clock>>

\* submitAttempt: updatedAttempt = getAttemptById(db, attemptId) and the action's result
submit_Return(p) ==
    /\ proc[p].pc = "submit_return"
    /\ IF getAttemptById(proc[p].attemptId) = NoAttempt
         THEN Return(p, Failure("Failed to update attempt"))
         ELSE Return(p, Success(<<getAttemptById(proc[p].attemptId),
                                   ScoringResult(proc[p].score, proc[p].totalPoints,
                                                 proc[p].questionResults)>>))
    /\ UNCHANGED <<db, nextQuestionId, clock, failures>>

-----------------------------------------------------------------------------
(* getAttemptResults server action *)

\* every user and an unauthenticated caller on every attempt, and a missing attempt
AttemptReadCalls ==
    { [user |-> u, attemptId |-> a] : u \in Users \cup {NoUser}, a \in 1..Len(attempts) }
      \cup { [user |-> Taker, attemptId |-> MissingAttempt] }

Call_getAttemptResults(p) ==
    /\ CanCall(p)
    /\ \E c \in AttemptReadCalls :
          proc' = [proc EXCEPT ![p] = [Idle EXCEPT !.pc = "results",
                                              !.op = "getAttemptResults", !.user = c.user,
                                              !.attemptId = c.attemptId]]
    /\ UNCHANGED <<db, nextQuestionId, clock, failures>>

\* getCurrentUser, attemptService.isAttemptOwner
results_CheckOwner(p) ==
    /\ proc[p].pc = "results"
    /\ IF proc[p].user = NoUser
         THEN Return(p, Failure("Authentication required"))
       ELSE IF ~isAttemptOwner(proc[p].attemptId, proc[p].user)
         THEN Return(p, Failure("You do not have permission to view this attempt"))
         ELSE Goto(p, "results_readAttempt")
    /\ UNCHANGED <<db, nextQuestionId, clock, failures>>

\* attemptService.getAttemptResults: attempt = getAttemptById(db, attemptId)
results_ReadAttempt(p) ==
    /\ proc[p].pc = "results_readAttempt"
    /\ IF getAttemptById(proc[p].attemptId) = NoAttempt
         THEN Return(p, Failure("Attempt not found"))
         ELSE proc' = [proc EXCEPT ![p].pc = "results_readResponses",
                                   ![p].attempt = getAttemptById(proc[p].attemptId)]
    /\ UNCHANGED <<db, nextQuestionId, clock, failures>>

\* rows of a SELECT without ORDER BY, in insertion order: batch by batch, and
\* inside a batch in question order (question ids grow with the position)
RECURSIVE OrderedResponses(_)
OrderedResponses(S) ==
    IF S = {} THEN <<>>
    ELSE LET m == CHOOSE r \in S : \A o \in S :
                      \/ r.id[3] < o.id[3]
                      \/ r.id[3] = o.id[3] /\ r.question_id <= o.question_id
         IN  <<m>> \o OrderedResponses(S \ {m})

ResultsData(p) == <<proc[p].attempt, proc[p].ids, proc[p].questionResults>>

\* responses = getAttemptResponses(db, attemptId)
results_ReadResponses(p) ==
    /\ proc[p].pc = "results_readResponses"
    /\ LET responses == OrderedResponses(getAttemptResponses(proc[p].attemptId))
       IN  IF responses = <<>>
             THEN Return(p, Success(<<proc[p].attempt, <<>>, <<>>>>))
             ELSE proc' = [proc EXCEPT ![p].pc = "results_readQuestion",
                                       ![p].ids = responses,
                                       ![p].rows = responses]
    /\ UNCHANGED <<db, nextQuestionId, clock, failures>>

\* loop body, first read: question = getQuestionById(db, response.question_id);
\* if (!question) continue
results_ReadQuestion(p) ==
    /\ proc[p].pc = "results_readQuestion"
    /\ IF getQuestionById(Head(proc[p].rows).question_id) # NoQuestion
         THEN Goto(p, "results_readChoices")
       ELSE IF Tail(proc[p].rows) = <<>>
         THEN Return(p, Success(ResultsData(p)))
         ELSE proc' = [proc EXCEPT ![p].rows = Tail(proc[p].rows)]
    /\ UNCHANGED <<db, nextQuestionId, clock, failures>>

\* the QuestionResult rebuilt from a stored response and the question's current
\* choices: correctChoice = choices.find((c) => c.is_correct === 1)
StoredQuestionResult(response, cs) ==
    [questionId |-> response.question_id, isCorrect |-> response.is_correct = 1,
     pointsEarned |-> response.points_earned, selectedChoiceId |-> response.choice_id,
     correctChoiceId |-> CorrectChoiceId(cs)]

\* loop body, second read: choices = getChoicesByQuestion(db, response.question_id)
results_ReadChoices(p) ==
    /\ proc[p].pc = "results_readChoices"
    /\ LET response == Head(proc[p].rows)
           r == StoredQuestionResult(response, getChoicesByQuestion(response.question_id))
       IN  IF Tail(proc[p].rows) = <<>>
             THEN Return(p, Success(<<proc[p].attempt, proc[p].ids,
                                      Append(proc[p].questionResults, r)>>))
             ELSE proc' = [proc EXCEPT ![p].pc = "results_readQuestion",
                                       ![p].rows = Tail(proc[p].rows),
                                       ![p].questionResults = Append(@, r)]
    /\ UNCHANGED <<db, nextQuestionId, clock, failures>>

-----------------------------------------------------------------------------
(* getAttemptById server action *)

Call_getAttemptById(p) ==
    /\ CanCall(p)
    /\ \E c \in AttemptReadCalls :
          proc' = [proc EXCEPT ![p] = [Idle EXCEPT !.pc = "attempt",
                                              !.op = "getAttemptById", !.user = c.user,
                                              !.attemptId = c.attemptId]]
    /\ UNCHANGED <<db, nextQuestionId, clock, failures>>

\* getCurrentUser, attemptService.isAttemptOwner
attempt_CheckOwner(p) ==
    /\ proc[p].pc = "attempt"
    /\ IF proc[p].user = NoUser
         THEN Return(p, Failure("Authentication required"))
       ELSE IF ~isAttemptOwner(proc[p].attemptId, proc[p].user)
         THEN Return(p, Failure("You do not have permission to view this attempt"))
         ELSE Goto(p, "attempt_read")
    /\ UNCHANGED <<db, nextQuestionId, clock, failures>>

\* attemptService.getAttemptById(db, attemptId) and the action's result
attempt_Read(p) ==
    /\ proc[p].pc = "attempt_read"
    /\ IF getAttemptById(proc[p].attemptId) = NoAttempt
         THEN Return(p, Failure("Attempt not found"))
         ELSE Return(p, Success(<<getAttemptById(proc[p].attemptId)>>))
    /\ UNCHANGED <<db, nextQuestionId, clock, failures>>

-----------------------------------------------------------------------------
(* getUserAttempts server action *)

Call_getUserAttempts(p) ==
    /\ CanCall(p)
    /\ \E u \in {Taker, NoUser} :
          proc' = [proc EXCEPT ![p] = [Idle EXCEPT !.pc = "userAttempts",
                                              !.op = "getUserAttempts", !.user = u]]
    /\ UNCHANGED <<db, nextQuestionId, clock, failures>>

\* getCurrentUser, attemptService.getUserAttempts and the action's result
getUserAttempts_Read(p) ==
    /\ proc[p].pc = "userAttempts"
    /\ IF proc[p].user = NoUser
         THEN Return(p, Failure("Authentication required"))
         ELSE Return(p, Success(<<getUserAttempts(proc[p].user)>>))
    /\ UNCHANGED <<db, nextQuestionId, clock, failures>>

-----------------------------------------------------------------------------
(* The system *)

\* wall-clock time passes
Tick ==
    /\ clock < MaxTime
    /\ clock' = clock + 1
    /\ UNCHANGED <<db, nextQuestionId, failures, proc>>

Init ==
    /\ quizzes = <<>>
    /\ questions = {}
    /\ choices = {}
    /\ attempts = <<>>
    /\ attempt_responses = {}
    /\ nextQuestionId = 1
    /\ clock = 1
    /\ failures = 0
    /\ proc = [p \in Procs |-> Idle]

\* createQuiz (app/actions/quizzes)
CreateRequest(p) ==
    \/ Call_createQuiz(p)
    \/ createQuiz_InsertQuiz(p)
    \/ createQuiz_ReadQuiz(p)
    \/ createQuiz_QuestionsBatch(p)
    \/ createQuiz_ChoicesBatch(p)
    \/ createQuiz_Return(p)

\* updateQuiz (app/actions/quizzes)
UpdateRequest(p) ==
    \/ Call_updateQuiz(p)
    \/ updateQuiz_CheckOwner(p)
    \/ updateQuiz_Meta(p)
    \/ updateQuiz_MetaRead(p)
    \/ updateQuiz_ReadQuestions(p)
    \/ updateQuiz_DeleteQuestion(p)
    \/ updateQuiz_QuestionsBatch(p)
    \/ updateQuiz_ChoicesBatch(p)
    \/ updateQuiz_Return(p)

\* deleteQuiz and getMyQuizzes (app/actions/quizzes)
DeleteRequest(p) ==
    \/ Call_deleteQuiz(p)
    \/ deleteQuiz_CheckOwner(p)
    \/ deleteQuiz_Update(p)
    \/ Call_getMyQuizzes(p)
    \/ getMyQuizzes_Read(p)

\* the server actions of the quiz author (app/actions/quizzes)
QuizRequest(p) ==
    \/ CreateRequest(p)
    \/ UpdateRequest(p)
    \/ DeleteRequest(p)

\* startQuizAttempt (app/actions/attempts.ts)
StartRequest(p) ==
    \/ Call_startQuizAttempt(p)
    \/ start_CheckQuiz(p)
    \/ start_ReadQuestions(p)
    \/ start_CheckChoices(p)
    \/ start_Insert(p)
    \/ start_Return(p)

\* submitQuizAttempt (app/actions/attempts.ts)
SubmitRequest(p) ==
    \/ Call_submitQuizAttempt(p)
    \/ submit_CheckOwner(p)
    \/ submit_ReadAttempt(p)
    \/ submit_ReadQuestions(p)
    \/ submit_ScoreQuestion(p)
    \/ submit_InsertResponses(p)
    \/ submit_Finalize(p)
    \/ submit_Return(p)

\* getAttemptResults, getAttemptById and getUserAttempts (app/actions/attempts.ts)
ReadRequest(p) ==
    \/ Call_getAttemptResults(p)
    \/ results_CheckOwner(p)
    \/ results_ReadAttempt(p)
    \/ results_ReadResponses(p)
    \/ results_ReadQuestion(p)
    \/ results_ReadChoices(p)
    \/ Call_getAttemptById(p)
    \/ attempt_CheckOwner(p)
    \/ attempt_Read(p)
    \/ Call_getUserAttempts(p)
    \/ getUserAttempts_Read(p)

\* every server action, one request at a time (the first slot serves them all)
Next ==
    \/ Tick
    \/ QuizRequest(1)
    \/ StartRequest(1)
    \/ SubmitRequest(1)
    \/ ReadRequest(1)

Spec == Init /\ [][Next]_vars

\* the database after alice's createQuiz("t1", <<QGood3, QGood2>>) and bob's
\* startQuizAttempt(1) have returned
RaceInit ==
    /\ quizzes = <<NewQuizRow(1, QuizInput("t1", NullText, NullText, TRUE,
                                            <<QGood3, QGood2>>), Author, 1)>>
    /\ questions = NewQuestionRows(1, <<QGood3, QGood2>>, 1)
    /\ choices = NewChoiceRows(<<QGood3, QGood2>>, NewQuestionIds(<<QGood3, QGood2>>, 1))
    /\ attempts = <<NewAttemptRow(1, Taker, 1, 3, 1)>>
    /\ attempt_responses = {}
    /\ nextQuestionId = 3
    /\ clock = 1
    /\ failures = 0
    /\ proc = [p \in Procs |-> Idle]

\* submissions served concurrently: two requests interleave at every await
RaceNext ==
    \/ Tick
    \/ \E p \in Procs : SubmitRequest(p)

RaceSpec == RaceInit /\ [][RaceNext]_vars

\* the database after alice's createQuiz("t1", <<QGood3, QGood2>>) has returned
EditRaceInit ==
    /\ quizzes = <<NewQuizRow(1, QuizInput("t1", NullText, NullText, TRUE,
                                            <<QGood3, QGood2>>), Author, 1)>>
    /\ questions = NewQuestionRows(1, <<QGood3, QGood2>>, 1)
    /\ choices = NewChoiceRows(<<QGood3, QGood2>>, NewQuestionIds(<<QGood3, QGood2>>, 1))
    /\ attempts = <<>>
    /\ attempt_responses = {}
    /\ nextQuestionId = 3
    /\ clock = 1
    /\ failures = 0
    /\ proc = [p \in Procs |-> Idle]

\* a quiz edited while it is being started: startQuizAttempt and updateQuiz
\* requests interleave at every await
EditRaceNext ==
    \/ Tick
    \/ \E p \in Procs : StartRequest(p)
    \/ \E p \in Procs : UpdateRequest(p)

EditRaceSpec == EditRaceInit /\ [][EditRaceNext]_vars

\* a quiz edited while it is being submitted or deleted: from the database of
\* RaceInit, the first slot serves bob's submitQuizAttempt and alice's
\* deleteQuiz, the second alice's updateQuiz, interleaved at every await, all
\* within one second
AuthorRaceNext ==
    \/ SubmitRequest(1)
    \/ DeleteRequest(1)
    \/ UpdateRequest(2)

AuthorRaceSpec == RaceInit /\ [][AuthorRaceNext]_vars

\* the database of RaceInit with a second quiz of alice,
\* createQuiz("t1", <<QGood4>>), whose question is question 3
TwoQuizInit ==
    /\ quizzes = <<NewQuizRow(1, QuizInput("t1", NullText, NullText, TRUE,
                                            <<QGood3, QGood2>>), Author, 1),
                   NewQuizRow(2, QuizInput("t1", NullText, NullText, TRUE,
                                            <<QGood4>>), Author, 1)>>
    /\ questions = NewQuestionRows(1, <<QGood3, QGood2>>, 1)
                      \cup NewQuestionRows(2, <<QGood4>>, 3)
    /\ choices = NewChoiceRows(<<QGood3, QGood2>>, NewQuestionIds(<<QGood3, QGood2>>, 1))
                    \cup NewChoiceRows(<<QGood4>>, NewQuestionIds(<<QGood4>>, 3))
    /\ attempts = <<NewAttemptRow(1, Taker, 1, 3, 1)>>
    /\ attempt_responses = {}
    /\ nextQuestionId = 4
    /\ clock = 1
    /\ failures = 0
    /\ proc = [p \in Procs |-> Idle]

\* two quizzes: updateQuiz and submitQuizAttempt, one request at a time
TwoQuizNext ==
    \/ UpdateRequest(1)
    \/ SubmitRequest(1)

TwoQuizSpec == TwoQuizInit /\ [][TwoQuizNext]_vars

-----------------------------------------------------------------------------
(* Store operations called directly: quizService.updateQuiz,
   questionService.updateQuestion, questionService.reorderQuestions and
   choiceService.updateChoice.  Their question and choice rows carry the
   updated_at column these operations write. *)

StampedQuestion(q, now) ==
    [id |-> q.id, quiz_id |-> q.quiz_id, question_text |-> q.question_text,
     question_order |-> q.question_order, points |-> q.points, updated_at |-> now]

StampedChoice(c, now) ==
    [id |-> c.id, question_id |-> c.question_id, choice_text |-> c.choice_text,
     choice_order |-> c.choice_order, is_correct |-> c.is_correct, updated_at |-> now]

NoChoiceRow == [id |-> NullChoice, question_id |-> NoId, choice_text |-> NullText,
                choice_order |-> 0, is_correct |-> 0, updated_at |-> NullTime]

\* SELECT * FROM choices WHERE id = ?1
getChoiceById(choiceId) ==
    IF \E c \in choices : c.id = choiceId
      THEN CHOOSE c \in choices : c.id = choiceId
      ELSE NoChoiceRow

\* quizData: a field that is not given is NullText
Call_quizService_updateQuiz(p) ==
    /\ CanCall(p)
    /\ \E q \in {1, MissingQuiz},
          in \in { QuizInput(NullText, NullText, NullText, FALSE, <<>>),
                   QuizInput("t3", NullText, NullText, FALSE, <<>>),
                   QuizInput(NullText, "d3", "i3", FALSE, <<>>) } :
          proc' = [proc EXCEPT ![p] = [Idle EXCEPT !.pc = "quizService_updateQuiz",
                                              !.op = "quizService.updateQuiz",
                                              !.quizId = q, !.input = in]]
    /\ UNCHANGED <<db, nextQuestionId, clock, failures>>

\* quizService.updateQuiz up to its first await: the read of the no-fields
\* branch, or the UPDATE
quizService_updateQuiz_Write(p) ==
    /\ proc[p].pc = "quizService_updateQuiz"
    /\ IF ~UpdatesMetadata(proc[p].input)
         THEN /\ IF getQuizById(proc[p].quizId) = NoQuiz
                   THEN Return(p, Failure("Quiz not found"))
                   ELSE Return(p, Success(<<getQuizById(proc[p].quizId)>>))
              /\ UNCHANGED quizzes
         ELSE \E ok \in Outcomes :
                IF ok
                  THEN /\ quizzes' = IF proc[p].quizId \in 1..Len(quizzes)
                                         THEN [quizzes EXCEPT ![proc[p].quizId] =
                                                  UpdatedQuizRow(@, proc[p].input, clock)]
                                         ELSE quizzes
                       /\ Goto(p, "quizService_updateQuiz_read")
                  ELSE Return(p, Failure(StorageError)) /\ UNCHANGED quizzes
    /\ failures' = IF proc'[p].result.error = StorageError THEN failures + 1 ELSE failures
    /\ UNCHANGED <<questions, choices, attempts, attempt_responses, nextQuestionId, clock>>

\* quizService.updateQuiz: getQuizById after the UPDATE
quizService_updateQuiz_Read(p) ==
    /\ proc[p].pc = "quizService_updateQuiz_read"
    /\ IF getQuizById(proc[p].quizId) = NoQuiz
         THEN Return(p, Failure("Quiz not found"))
         ELSE Return(p, Success(<<getQuizById(proc[p].quizId)>>))
    /\ UNCHANGED <<db, nextQuestionId, clock, failures>>

\* questionData: 'fields' are the keys that are not undefined; nextQuestionId is
\* an id that names no row
Call_updateQuestion(p) ==
    /\ CanCall(p)
    /\ \E q \in {1, nextQuestionId},
          fs \in { {}, {"questionText"}, {"questionOrder", "points"} } :
          proc' = [proc EXCEPT ![p] = [Idle EXCEPT
                     !.pc = "updateQuestion", !.op = "updateQuestion",
                     !.input = [id |-> q,
                                data |-> [fields |-> fs, questionText |-> "q-x",
                                          questionOrder |-> 3, points |-> 5]]]]
    /\ UNCHANGED <<db, nextQuestionId, clock, failures>>

\* an UPDATE that writes every column from questionData, given or not
UpdatedQuestionRow_AllColumns(row, data, now) ==
    [row EXCEPT !.question_text = data.questionText,
                !.question_order = data.questionOrder,
                !.points = data.points,
                !.updated_at = now]

\* UPDATE questions SET [question_text = ?,] [question_order = ?,] [points = ?,]
\* updated_at = ? WHERE id = ?
UpdatedQuestionRow(row, data, now) ==
    [row EXCEPT
       !.question_text = IF "questionText" \in data.fields THEN data.questionText ELSE @,
       !.question_order = IF "questionOrder" \in data.fields THEN data.questionOrder ELSE @,
       !.points = IF "points" \in data.fields THEN data.points ELSE @,
       !.updated_at = now]

\* updateQuestion up to its first await
updateQuestion_Write(p) ==
    /\ proc[p].pc = "updateQuestion"
    /\ IF proc[p].input.data.fields = {}
         THEN /\ IF getQuestionById(proc[p].input.id) = NoQuestion
                   THEN Return(p, Failure("Question not found"))
                   ELSE Return(p, Success(<<getQuestionById(proc[p].input.id)>>))
              /\ UNCHANGED questions
         ELSE \E ok \in Outcomes :
                IF ok
                  THEN /\ questions' =
                             { IF q.id = proc[p].input.id
                                 THEN UpdatedQuestionRow(q, proc[p].input.data, clock)
                                 ELSE q : q \in questions }
                       /\ Goto(p, "updateQuestion_read")
                  ELSE Return(p, Failure(StorageError)) /\ UNCHANGED questions
    /\ failures' = IF proc'[p].result.error = StorageError THEN failures + 1 ELSE failures
    /\ UNCHANGED <<quizzes, choices, attempts, attempt_responses, nextQuestionId, clock>>

\* updateQuestion: getQuestionById after the UPDATE
updateQuestion_Read(p) ==
    /\ proc[p].pc = "updateQuestion_read"
    /\ IF getQuestionById(proc[p].input.id) = NoQuestion
         THEN Return(p, Failure("Question not found"))
         ELSE Return(p, Success(<<getQuestionById(proc[p].input.id)>>))
    /\ UNCHANGED <<db, nextQuestionId, clock, failures>>

\* choiceData: 'fields' are the keys that are not undefined
Call_updateChoice(p) ==
    /\ CanCall(p)
    /\ \E c \in {GenChoiceId(1, 1), BogusChoice},
          fs \in { {}, {"isCorrect"}, {"choiceText", "choiceOrder"} } :
          proc' = [proc EXCEPT ![p] = [Idle EXCEPT
                     !.pc = "updateChoice", !.op = "updateChoice",
                     !.input = [id |-> c,
                                data |-> [fields |-> fs, choiceText |-> "c-x",
                                          choiceOrder |-> 3, isCorrect |-> TRUE]]]]
    /\ UNCHANGED <<db, nextQuestionId, clock, failures>>

\* UPDATE choices SET [choice_text = ?,] [choice_order = ?,] [is_correct = ?,]
\* updated_at = ? WHERE id = ?
UpdatedChoiceRow(row, data, now) ==
    [row EXCEPT
       !.choice_text = IF "choiceText" \in data.fields THEN data.choiceText ELSE @,
       !.choice_order = IF "choiceOrder" \in data.fields THEN data.choiceOrder ELSE @,
       !.is_correct = IF "isCorrect" \in data.fields
                        THEN (IF data.isCorrect THEN 1 ELSE 0) ELSE @,
       !.updated_at = now]

\* updateChoice up to its first await
updateChoice_Write(p) ==
    /\ proc[p].pc = "updateChoice"
    /\ IF proc[p].input.data.fields = {}
         THEN /\ IF getChoiceById(proc[p].input.id) = NoChoiceRow
                   THEN Return(p, Failure("Choice not found"))
                   ELSE Return(p, Success(<<getChoiceById(proc[p].input.id)>>))
              /\ UNCHANGED choices
         ELSE \E ok \in Outcomes :
                IF ok
                  THEN /\ choices' =
                             { IF c.id = proc[p].input.id
                                 THEN UpdatedChoiceRow(c, proc[p].input.data, clock)
                                 ELSE c : c \in choices }
                       /\ Goto(p, "updateChoice_read")
                  ELSE Return(p, Failure(StorageError)) /\ UNCHANGED choices
    /\ failures' = IF proc'[p].result.error = StorageError THEN failures + 1 ELSE failures
    /\ UNCHANGED <<quizzes, questions, attempts, attempt_responses, nextQuestionId, clock>>

\* updateChoice: getChoiceById after the UPDATE
updateChoice_Read(p) ==
    /\ proc[p].pc = "updateChoice_read"
    /\ IF getChoiceById(proc[p].input.id) = NoChoiceRow
         THEN Return(p, Failure("Choice not found"))
         ELSE Return(p, Success(<<getChoiceById(proc[p].input.id)>>))
    /\ UNCHANGED <<db, nextQuestionId, clock, failures>>

\* questionOrders for quiz 1 (questions 1 and 2; question 3 belongs to quiz 2):
\* a swap, a list that also names question 3, a list that gives question 1
\* the order of question 2, and a list with order 0
Call_reorderQuestions(p) ==
    /\ CanCall(p)
    /\ \E pairs \in { <<[questionId |-> 1, order |-> 2], [questionId |-> 2, order |-> 1]>>,
                       <<[questionId |-> 3, order |-> 7], [questionId |-> 1, order |-> 4]>>,
                       <<[questionId |-> 1, order |-> 2]>>,
                       <<[questionId |-> 2, order |-> 0]>> } :
          proc' = [proc EXCEPT ![p] = [Idle EXCEPT !.pc = "reorderQuestions",
                                              !.op = "reorderQuestions", !.quizId = 1,
                                              !.input = [pairs |-> pairs]]]
    /\ UNCHANGED <<db, nextQuestionId, clock, failures>>

\* the UPDATE without 'AND quiz_id = ?4'
ReorderedRows_AnyQuiz(S, quizId, pair, now) ==
    { IF q.id = pair.questionId
        THEN [q EXCEPT !.question_order = pair.order, !.updated_at = now]
        ELSE q : q \in S }

\* UPDATE questions SET question_order = ?1, updated_at = ?2
\* WHERE id = ?3 AND quiz_id = ?4
ReorderedRows(S, quizId, pair, now) ==
    { IF q.id = pair.questionId /\ q.quiz_id = quizId
        THEN [q EXCEPT !.question_order = pair.order, !.updated_at = now]
        ELSE q : q \in S }

\* the statements of the batch applied in the order of questionOrders
RECURSIVE AfterReorder(_, _, _, _)
AfterReorder(S, quizId, pairs, now) ==
    IF pairs = <<>> THEN S
    ELSE AfterReorder(ReorderedRows(S, quizId, Head(pairs), now), quizId, Tail(pairs), now)

\* reorderQuestions: executeBatch(db, queries), one transaction
reorderQuestions(p) ==
    /\ proc[p].pc = "reorderQuestions"
    /\ \E ok \in Outcomes :
         IF ok
           THEN /\ questions' = AfterReorder(questions, proc[p].quizId,
                                             proc[p].input.pairs, clock)
                /\ Return(p, Success(<<>>))
           ELSE Return(p, Failure(StorageError)) /\ UNCHANGED questions
    /\ failures' = IF proc'[p].result.error = StorageError THEN failures + 1 ELSE failures
    /\ UNCHANGED <<quizzes, choices, attempts, attempt_responses, nextQuestionId, clock>>

\* the database after createQuiz("t1", <<QGood3, QGood2>>) and
\* createQuiz("t1", <<QGood4>>) of alice returned at time 1; it is now time 2
StoreInit ==
    /\ quizzes = <<NewQuizRow(1, QuizInput("t1", NullText, NullText, TRUE,
                                            <<QGood3, QGood2>>), Author, 1),
                   NewQuizRow(2, QuizInput("t1", NullText, NullText, TRUE,
                                            <<QGood4>>), Author, 1)>>
    /\ questions = { StampedQuestion(q, 1) :
                        q \in NewQuestionRows(1, <<QGood3, QGood2>>, 1)
                                 \cup NewQuestionRows(2, <<QGood4>>, 3) }
    /\ choices = { StampedChoice(c, 1) :
                      c \in NewChoiceRows(<<QGood3, QGood2>>,
                                          NewQuestionIds(<<QGood3, QGood2>>, 1))
                               \cup NewChoiceRows(<<QGood4>>, NewQuestionIds(<<QGood4>>, 3)) }
    /\ attempts = <<>>
    /\ attempt_responses = {}
    /\ nextQuestionId = 4
    /\ clock = 2
    /\ failures = 0
    /\ proc = [p \in Procs |-> Idle]

\* the store operations, one call at a time
StoreNext ==
    \/ Call_quizService_updateQuiz(1)
    \/ quizService_updateQuiz_Write(1)
    \/ quizService_updateQuiz_Read(1)
    \/ Call_updateQuestion(1)
    \/ updateQuestion_Write(1)
    \/ updateQuestion_Read(1)
    \/ Call_updateChoice(1)
    \/ updateChoice_Write(1)
    \/ updateChoice_Read(1)
    \/ Call_reorderQuestions(1)
    \/ reorderQuestions(1)

StoreSpec == StoreInit /\ [][StoreNext]_vars

-----------------------------------------------------------------------------
(* Properties *)

\* slot p takes the step
Stepped(p) == proc'[p] # proc[p]

\* slot p has returned from a call of the action op
Returned(p, op) == proc[p].pc = "done" /\ proc[p].op = op

\* the response rows stored for an attempt and a question
ResponseRows(attemptId, questionId) ==
    { r \in attempt_responses : r.attempt_id = attemptId /\ r.question_id = questionId }

\* C1: when two submit calls for the same in-progress attempt run concurrently,
\* at most one of them finalizes the attempt and returns success.
C1_AtMostOneSubmitSucceeds ==
    ~ /\ Returned(1, "submitQuizAttempt")
      /\ Returned(2, "submitQuizAttempt")
      /\ proc[1].attemptId = proc[2].attemptId
      /\ proc[1].result.success
      /\ proc[2].result.success

\* C2: once submitted_at of an attempt is non-null, no step changes the attempt
\* row (submitted_at, score, percentage and time_taken_seconds keep the values of
\* the first finalization).
C2_SubmittedAttemptNeverChanges ==
    [][\A a \in 1..Len(attempts) :
          attempts[a].submitted_at # NullTime => attempts'[a] = attempts[a]]_vars

\* C3: a submit on an attempt whose submitted_at is already non-null writes
\* nothing on its way to the guard, and at the guard fails with 'Attempt has
\* already been submitted', inserting no attempt_responses row and leaving the
\* attempt row unchanged.
C3_SecondSubmitRejected ==
    [][\A p \in Procs :
          ( /\ Stepped(p)
            /\ proc[p].pc \in {"submit", "submit_readAttempt"}
            /\ getAttemptById(proc[p].attemptId).submitted_at # NullTime )
          => /\ attempt_responses' = attempt_responses
             /\ attempts' = attempts
             /\ proc[p].pc = "submit_readAttempt" =>
                   /\ proc'[p].pc = "done"
                   /\ proc'[p].result = Failure("Attempt has already been submitted")]_vars

\* a second submit by the owner has been rejected by the guard
C3_Witness ==
    /\ Returned(1, "submitQuizAttempt")
    /\ proc[1].result = Failure("Attempt has already been submitted")
    /\ isAttemptOwner(proc[1].attemptId, proc[1].user)
    /\ getAttemptById(proc[1].attemptId).submitted_at # NullTime
    /\ getAttemptResponses(proc[1].attemptId) # {}

\* C4: every submitted attempt has exactly one attempt_responses row for each
\* question of its quiz (never zero and never two for one attempt and question).
C4_OneResponseRowPerQuestion ==
    \A a \in 1..Len(attempts) :
       attempts[a].submitted_at # NullTime =>
          \A q \in LiveQuestionIds(attempts[a].quiz_id) :
             Cardinality(ResponseRows(a, q)) = 1

\* C5: a step of updateQuiz keeps every attempt_responses row of an attempt that
\* is already submitted.
C5_ReplacementKeepsResponses ==
    [][\A p \in Procs :
          (Stepped(p) /\ proc[p].op = "updateQuiz")
          => \A r \in attempt_responses :
                getAttemptById(r.attempt_id).submitted_at # NullTime
                   => r \in attempt_responses']_vars

\* C6: a createQuiz that failed after it inserted its quiz row leaves no quiz of
\* that call visible through getQuizById, getAllQuizzes or getQuizzesByUser.
C6_FailedCreateLeavesNoQuiz ==
    \A p \in Procs :
       ( /\ Returned(p, "createQuiz")
         /\ ~proc[p].result.success
         /\ proc[p].quizId # NoId )
       => /\ getQuizById(proc[p].quizId) = NoQuiz
          /\ proc[p].quizId \notin getAllQuizzes
          /\ proc[p].quizId \notin getQuizzesByUser(proc[p].user)

\* C7: in every reachable state every question row has between 2 and 4 choice
\* rows and at least one of them has is_correct = 1.
C7_EveryQuestionHasValidChoices ==
    \A q \in questions :
       LET cs == { c \in choices : c.question_id = q.id }
       IN  /\ Cardinality(cs) >= 2
           /\ Cardinality(cs) <= 4
           /\ \E c \in cs : c.is_correct = 1

\* the question list of a form is present and is empty, or holds a question with
\* fewer than 2 or more than 4 choices or with no choice marked correct
InvalidQuestions(in) ==
    /\ in.hasQuestions
    /\ \/ in.questions = <<>>
       \/ \E i \in 1..Len(in.questions) :
             \/ Len(in.questions[i].choices) < 2
             \/ Len(in.questions[i].choices) > 4
             \/ \A j \in 1..Len(in.questions[i].choices) :
                   ~in.questions[i].choices[j].isCorrect

\* C8: createQuiz and updateQuiz called with an empty question list, or with a
\* question of fewer than 2 or more than 4 choices or without a correct choice,
\* return a failure at their first step and write nothing to quizzes, questions
\* or choices.
C8_InvalidInputRejectedBeforeWrite ==
    [][\A p \in Procs :
          ( /\ Stepped(p)
            /\ proc[p].pc \in {"createQuiz", "updateQuiz"}
            /\ InvalidQuestions(proc[p].input) )
          => /\ proc'[p].pc = "done"
             /\ ~proc'[p].result.success
             /\ authoring' = authoring]_vars

\* the owner's updateQuiz with an invalid question list has been rejected by the
\* schema and the quiz still has the questions and choices it was created with
C8_Witness ==
    /\ Returned(1, "updateQuiz")
    /\ InvalidQuestions(proc[1].input)
    /\ proc[1].result = Failure(ValidationError)
    /\ QuizRow(proc[1].quizId).created_by = proc[1].user
    /\ LiveQuestionIds(proc[1].quizId) # {}

\* C9: updateQuiz or deleteQuiz called by a user who is not the quiz's
\* created_by returns the permission failure and changes no row of quizzes,
\* questions or choices.
C9_NonOwnerCannotChangeQuiz ==
    [][\A p \in Procs :
          ( /\ Stepped(p)
            /\ proc[p].pc \in {"updateQuiz", "deleteQuiz"}
            /\ proc[p].user \in Users
            /\ proc[p].quizId \in 1..Len(quizzes)
            /\ quizzes[proc[p].quizId].created_by # proc[p].user )
          => /\ proc'[p].pc = "done"
             /\ proc'[p].result \in
                   { Failure("You do not have permission to edit this quiz"),
                     Failure("You do not have permission to delete this quiz") }
             /\ authoring' = authoring]_vars

\* bob's updateQuiz on alice's quiz has been refused
C9_Witness ==
    /\ Returned(1, "updateQuiz")
    /\ proc[1].user = Taker
    /\ QuizRow(proc[1].quizId).created_by = Author
    /\ proc[1].result = Failure("You do not have permission to edit this quiz")

\* the first step of an attempt action called by a user on another user's attempt
ForeignAttemptCall(p) ==
    /\ Stepped(p)
    /\ proc[p].pc \in {"submit", "results", "attempt"}
    /\ proc[p].user \in Users
    /\ proc[p].attemptId \in 1..Len(attempts)
    /\ attempts[proc[p].attemptId].user_id # proc[p].user

PermissionFailures ==
    { Failure("You do not have permission to submit this attempt"),
      Failure("You do not have permission to view this attempt") }

\* C10 as stated: submitQuizAttempt, getAttemptResults and getAttemptById called
\* by a user on another user's attempt return a permission failure, disclose
\* nothing and change no row.
C10_ForeignCallGetsPermissionFailure ==
    [][\A p \in Procs :
          ForeignAttemptCall(p)
          => /\ proc'[p].pc = "done"
             /\ proc'[p].result \in PermissionFailures
             /\ db' = db]_vars

\* C10 amended: such a call returns a failure that carries no data and changes
\* no row; the failure is the permission failure whenever the request passes
\* the action's schema (submitQuizAttempt validates the form before it checks
\* ownership).
C10_ForeignCallFailsWithoutDisclosure ==
    [][\A p \in Procs :
          ForeignAttemptCall(p)
          => /\ proc'[p].pc = "done"
             /\ ~proc'[p].result.success
             /\ proc'[p].result.data = <<>>
             /\ proc'[p].result.error \in
                   {ValidationError} \cup { f.error : f \in PermissionFailures }
             /\ ( proc[p].op = "submitQuizAttempt"
                    => SubmitAttemptSchema(proc[p].attemptId, proc[p].responses) )
                => proc'[p].result \in PermissionFailures
             /\ db' = db]_vars

\* alice's submitQuizAttempt on bob's attempt, with a form the schema accepts,
\* has been refused
C10_Witness ==
    /\ Returned(1, "submitQuizAttempt")
    /\ proc[1].user = Author
    /\ getAttemptById(proc[1].attemptId).user_id = Taker
    /\ SubmitAttemptSchema(proc[1].attemptId, proc[1].responses)
    /\ proc[1].result = Failure("You do not have permission to submit this attempt")

\* the position of a request that has run no statement of its action yet
EntryPositions ==
    {"createQuiz", "updateQuiz", "deleteQuiz", "myQuizzes", "start", "submit",
     "results", "userAttempts", "attempt"}

\* C11: with no current user, createQuiz, updateQuiz, deleteQuiz, getMyQuizzes,
\* startQuizAttempt, submitQuizAttempt, getAttemptResults, getUserAttempts and
\* getAttemptById return 'Authentication required' at their first step: the
\* result is fixed whatever the tables hold, and no table is written.
C11_UnauthenticatedRejected ==
    [][\A p \in Procs :
          ( /\ Stepped(p)
            /\ proc[p].pc \in EntryPositions
            /\ proc[p].user = NoUser )
          => /\ proc'[p].pc = "done"
             /\ proc'[p].result = Failure("Authentication required")
             /\ db' = db]_vars

\* an unauthenticated submitQuizAttempt on an existing attempt has been refused
C11_Witness ==
    /\ Returned(1, "submitQuizAttempt")
    /\ proc[1].user = NoUser
    /\ getAttemptById(proc[1].attemptId) # NoAttempt
    /\ proc[1].result = Failure("Authentication required")

\* a soft-deleted quiz is hidden from getQuizById, quizExists and getAllQuizzes,
\* and the attempts that reference it are returned by getAttemptById and
\* getUserAttempts
DeletedQuizHidden(q) ==
    /\ getQuizById(q) = NoQuiz
    /\ ~quizExists(q)
    /\ q \notin getAllQuizzes
    /\ \A a \in 1..Len(attempts) :
          attempts[a].quiz_id = q =>
             /\ getAttemptById(a) = attempts[a]
             /\ a \in getUserAttempts(attempts[a].user_id)

\* C12: a successful deleteQuiz leaves the quiz row stored with is_active = 0;
\* a row with is_active = 0 keeps it in every later step, is not returned by
\* getQuizById, quizExists or getAllQuizzes, and every attempt that references
\* the quiz stays stored and returned by getAttemptById and getUserAttempts.
C12_DeletedQuizStaysHidden ==
    /\ [](\A p \in Procs :
             (Returned(p, "deleteQuiz") /\ proc[p].result.success)
                => /\ proc[p].quizId \in 1..Len(quizzes)
                   /\ quizzes[proc[p].quizId].is_active = 0)
    /\ [](\A q \in 1..Len(quizzes) : quizzes[q].is_active = 0 => DeletedQuizHidden(q))
    /\ [][\A q \in 1..Len(quizzes) :
             quizzes[q].is_active = 0 =>
                /\ q \in 1..Len(quizzes')
                /\ quizzes'[q].is_active = 0
                /\ \A a \in 1..Len(attempts) :
                      attempts[a].quiz_id = q =>
                         /\ a \in 1..Len(attempts')
                         /\ attempts'[a].quiz_id = q]_vars

\* after the deleteQuiz, bob's getAttemptById still returns his attempt on the
\* deleted quiz
C12_Witness ==
    /\ Returned(1, "getAttemptById")
    /\ proc[1].result.success
    /\ proc[1].result.data[1].quiz_id \in 1..Len(quizzes)
    /\ quizzes[proc[1].result.data[1].quiz_id].is_active = 0
    /\ getQuizById(proc[1].result.data[1].quiz_id) = NoQuiz

\* the quiz has a question and every question of it has a choice
Scoreable(quizId) ==
    /\ getQuestionsByQuiz(quizId) # <<>>
    /\ \A q \in LiveQuestionIds(quizId) : getChoicesByQuestion(q) # <<>>

\* C13: an attempt row is only ever inserted for a quiz that, at that moment, has
\* at least one question and no question without choices.
C13_AttemptsOnlyOnScoreableQuiz ==
    [][Len(attempts') > Len(attempts)
          => Scoreable(attempts'[Len(attempts')].quiz_id)]_vars

\* the sum of the points of a set of question rows
RECURSIVE PointsOfRows(_)
PointsOfRows(S) ==
    IF S = {} THEN 0
    ELSE LET q == CHOOSE r \in S : TRUE IN q.points + PointsOfRows(S \ {q})

\* a row as startAttempt must create it for the quiz as it is stored
FreshAttempt(row) ==
    /\ getQuizById(row.quiz_id) # NoQuiz
    /\ row.score = 0
    /\ row.percentage = <<0, 1>>
    /\ row.submitted_at = NullTime
    /\ row.total_points = PointsOfRows({ q \in questions : q.quiz_id = row.quiz_id })

\* C14: a successful start returns the one attempt row it created, on an active
\* quiz, with score = 0, percentage = 0, submitted_at = null and total_points the
\* sum of the points of the quiz's questions; a request inserts one row at a
\* time; start on a missing or inactive quiz returns 'Quiz not found' and
\* creates no row.
C14_StartCreatesFreshAttempt ==
    /\ [](\A p \in Procs :
             (Returned(p, "startQuizAttempt") /\ proc[p].result.success)
                => /\ FreshAttempt(proc[p].result.data[1])
                   /\ getAttemptById(proc[p].result.data[1].id) = proc[p].result.data[1]
                   /\ proc[p].result.data[1].user_id = proc[p].user
                   /\ proc[p].result.data[1].quiz_id = proc[p].quizId)
    /\ [][/\ Len(attempts') <= Len(attempts) + 1
          /\ Len(attempts') > Len(attempts) => FreshAttempt(attempts'[Len(attempts')])
          /\ \A p \in Procs :
                ( /\ Stepped(p)
                  /\ proc[p].pc = "start"
                  /\ proc[p].user \in Users
                  /\ getQuizById(proc[p].quizId) = NoQuiz )
                => /\ proc'[p].pc = "done"
                   /\ proc'[p].result = Failure("Quiz not found")
                   /\ attempts' = attempts]_vars

\* bob's startQuizAttempt has returned his new attempt
C14_Witness ==
    /\ Returned(1, "startQuizAttempt")
    /\ proc[1].result.success
    /\ proc[1].result.data[1].total_points > 0
    /\ proc[1].result.data[1].user_id = Taker

\* C15: no step changes the quiz_id, user_id, started_at or total_points of a
\* stored attempt, and no step removes the attempt.
C15_AttemptIdentityFixed ==
    [][\A a \in 1..Len(attempts) :
          /\ a \in 1..Len(attempts')
          /\ attempts'[a].quiz_id = attempts[a].quiz_id
          /\ attempts'[a].user_id = attempts[a].user_id
          /\ attempts'[a].started_at = attempts[a].started_at
          /\ attempts'[a].total_points = attempts[a].total_points]_vars

\* an attempt has been submitted after its quiz's questions were replaced: its
\* total_points is still the total of the questions it was started on
C15_Witness ==
    \E a \in 1..Len(attempts) :
       /\ attempts[a].submitted_at # NullTime
       /\ QuizRow(attempts[a].quiz_id).title = "t2"
       /\ attempts[a].total_points
             # PointsOfRows({ q \in questions : q.quiz_id = attempts[a].quiz_id })

\* C16: the percentage of every submitted attempt is score / total_points * 100
\* of that row's own score and total_points (0 when total_points = 0).
C16_PercentageMatchesRow ==
    \A a \in 1..Len(attempts) :
       attempts[a].submitted_at # NullTime =>
          attempts[a].percentage = Percentage(attempts[a].score, attempts[a].total_points)

\* the response map names, for the question, a stored choice of that question
\* with is_correct = 1
NamesCorrectChoice(responses, questionId) ==
    \E c \in choices :
       /\ c.id = ResponseMapGet(responses, questionId)
       /\ c.question_id = questionId
       /\ c.is_correct = 1

\* C17: for any response map, each iteration of calculateScore returns a result
\* for its question (in question_order): isCorrect exactly when the map names a
\* choice of that question with is_correct = 1, pointsEarned the question's
\* points when isCorrect and 0 otherwise, added to score, and the question's
\* points added to totalPoints.
C17_ScoreOfEveryQuestion ==
    [][\A p \in Procs :
          (Stepped(p) /\ proc[p].pc = "submit_score")
          => LET question == Head(proc[p].rows)
                 isCorrect == NamesCorrectChoice(proc[p].responses, question.id)
                 earned == IF isCorrect THEN question.points ELSE 0
             IN  /\ proc'[p].pc # "done"
                 /\ Len(proc'[p].questionResults) = Len(proc[p].questionResults) + 1
                 /\ LET r == proc'[p].questionResults[Len(proc'[p].questionResults)]
                    IN  /\ r.questionId = question.id
                        /\ r.isCorrect = isCorrect
                        /\ r.pointsEarned = earned
                 /\ proc'[p].score = proc[p].score + earned
                 /\ proc'[p].totalPoints = proc[p].totalPoints + question.points]_vars

\* the result calculateScore pushed for a stored question that has no choices
\* although a choice id was submitted for it
ChoicelessResult(r) ==
    /\ getChoicesByQuestion(r.questionId) = <<>>
    /\ r.selectedChoiceId # NullChoice

\* C18: an iteration of calculateScore on a question with zero choices does not
\* throw: it reports the question with isCorrect = FALSE, pointsEarned = 0,
\* correctChoiceId = null and the submitted choice id (or null) as
\* selectedChoiceId, leaves score alone and adds the question's points to
\* totalPoints.
C18_ChoicelessQuestionScoredZero ==
    [][\A p \in Procs :
          (/\ Stepped(p)
           /\ proc[p].pc = "submit_score"
           /\ getChoicesByQuestion(Head(proc[p].rows).id) = <<>>)
          => LET question == Head(proc[p].rows)
             IN  /\ proc'[p].pc # "done"
                 /\ proc'[p].questionResults =
                       Append(proc[p].questionResults,
                              [questionId |-> question.id, isCorrect |-> FALSE,
                               pointsEarned |-> 0,
                               selectedChoiceId |->
                                  ResponseMapGet(proc[p].responses, question.id),
                               correctChoiceId |-> NullChoice])
                 /\ proc'[p].score = proc[p].score
                 /\ proc'[p].totalPoints = proc[p].totalPoints + question.points]_vars

C18_Witness ==
    \E p \in Procs :
       /\ proc[p].op = "submitQuizAttempt"
       /\ proc[p].pc \in {"submit_score", "submit_insert"}
       /\ \E i \in 1..Len(proc[p].questionResults) :
             /\ ChoicelessResult(proc[p].questionResults[i])
             /\ proc[p].totalPoints > 0

\* C19: calculateScore on a quiz with zero questions returns score = 0,
\* totalPoints = 0, percentage = 0 and an empty result list; the percentage is
\* the constant 0 and not a quotient with denominator 0.
C19_EmptyQuizScoresZero ==
    [][\A p \in Procs :
          (/\ Stepped(p)
           /\ proc[p].pc = "submit_readQuestions"
           /\ getQuestionsByQuiz(proc[p].attempt.quiz_id) = <<>>)
          => /\ proc'[p].pc = "submit_insert"
             /\ ScoringResult(proc'[p].score, proc'[p].totalPoints,
                              proc'[p].questionResults)
                  = [score |-> 0, totalPoints |-> 0, percentage |-> <<0, 1>>,
                     questionResults |-> <<>>]]_vars

C19_Witness ==
    \E p \in Procs :
       /\ proc[p].op = "submitQuizAttempt"
       /\ proc[p].pc = "submit_insert"
       /\ getQuestionsByQuiz(proc[p].attempt.quiz_id) = <<>>
       /\ proc[p].attempt.total_points > 0
       /\ proc[p].totalPoints = 0
       /\ proc[p].questionResults = <<>>

\* calculateScore has returned to the submission p serves
Scored(p) ==
    /\ proc[p].op = "submitQuizAttempt"
    /\ \/ proc[p].pc \in {"submit_insert", "submit_finalize", "submit_return"}
       \/ proc[p].pc = "done" /\ proc[p].result.success

\* what calculateScore returned to p
ScoreOf(p) ==
    IF proc[p].pc = "done"
      THEN proc[p].result.data[2]
      ELSE ScoringResult(proc[p].score, proc[p].totalPoints, proc[p].questionResults)

ReplacementReturns(p) ==
    /\ proc[p].pc = "updateQuiz_return"
    /\ proc[p].input.hasQuestions
    /\ proc'[p].pc = "done"
    /\ proc'[p].result.success

\* C21: when an updateQuiz call with a question list of length n returns
\* success, the quiz's question rows are exactly the n rows the call inserted
\* (ids generated by the call, question_order 1..n in input order), their
\* choice rows are exactly the input choices at choice_order 1..k, and no
\* other question or choice row of the quiz is left: an id that named one
\* before the update resolves to nothing.  The ids a call generates are ids of
\* no stored row.
C21_ReplacementIsComplete ==
    [][\A p \in Procs :
          /\ ReplacementReturns(p)
             => LET qs == proc[p].input.questions
                    ids == proc[p].ids
                IN  /\ Len(ids) = Len(qs)
                    /\ { q \in questions' : q.quiz_id = proc[p].quizId }
                          = NewQuestionRows(proc[p].quizId, qs, ids[1])
                    /\ { c \in choices' :
                            \/ \E i \in 1..Len(ids) : c.question_id = ids[i]
                            \/ ~\E q \in questions' : q.id = c.question_id }
                          = NewChoiceRows(qs, ids)
          /\ (Stepped(p) /\ proc[p].pc = "updateQuiz_questions"
                         /\ proc'[p].pc = "updateQuiz_choices")
             => \A i \in 1..Len(proc'[p].ids) :
                   /\ ~\E q \in questions : q.id = proc'[p].ids[i]
                   /\ ~\E c \in choices : c.question_id = proc'[p].ids[i]]_vars

\* C22: no step of an updateQuiz call whose request carries no questions field
\* changes a question row or a choice row.
C22_NoQuestionsFieldKeepsQuestions ==
    [][\A p \in Procs :
          (/\ Stepped(p)
           /\ proc'[p].op = "updateQuiz"
           /\ ~proc'[p].input.hasQuestions)
          => /\ questions' = questions
             /\ choices' = choices]_vars

C22_Witness ==
    \E p \in Procs :
       /\ Returned(p, "updateQuiz")
       /\ proc[p].result.success
       /\ ~proc[p].input.hasQuestions
       /\ quizzes[proc[p].quizId].title = "t2"
       /\ quizzes[proc[p].quizId].instructions = "i2"
       /\ Len(getQuestionsByQuiz(proc[p].quizId)) = 2

\* the order the last pair naming the question asks for, or the order it has
RequestedOrder(q, pairs) ==
    LET named == { i \in 1..Len(pairs) : pairs[i].questionId = q.id }
    IN  IF named = {} THEN q.question_order
        ELSE pairs[CHOOSE i \in named : \A j \in named : j <= i].order

\* C23: a reorderQuestions(quizId, pairs) call leaves every question row of
\* another quiz as it is, also one that a pair names; it changes no column of a
\* question of quizId other than question_order and updated_at; and it either
\* fails and leaves all rows as they are, or succeeds and every question of
\* quizId has the order its pairs ask for.
C23_ReorderScopedAndAtomic ==
    [][\A p \in Procs :
          (Stepped(p) /\ proc[p].pc = "reorderQuestions")
          => LET quizId == proc[p].quizId
                 pairs == proc[p].input.pairs
             IN  /\ \A q \in questions : q.quiz_id # quizId => q \in questions'
                 /\ Cardinality(questions') = Cardinality(questions)
                 /\ \A q \in questions :
                       \E r \in questions' :
                          r = [q EXCEPT !.question_order = r.question_order,
                                        !.updated_at = r.updated_at]
                 /\ \/ ~proc'[p].result.success /\ questions' = questions
                    \/ /\ proc'[p].result.success
                       /\ \A q \in questions :
                             q.quiz_id = quizId
                             => \E r \in questions' :
                                   /\ r.id = q.id
                                   /\ r.question_order = RequestedOrder(q, pairs)]_vars

C23_Witness ==
    \E p \in Procs :
       /\ Returned(p, "reorderQuestions")
       /\ proc[p].result.success
       /\ \E i \in 1..Len(proc[p].input.pairs) :
             /\ getQuestionById(proc[p].input.pairs[i].questionId).quiz_id = 2
             /\ getQuestionById(proc[p].input.pairs[i].questionId).question_order
                   # proc[p].input.pairs[i].order
       /\ \E i \in 1..Len(proc[p].input.pairs) :
             /\ getQuestionById(proc[p].input.pairs[i].questionId).quiz_id = 1
             /\ getQuestionById(proc[p].input.pairs[i].questionId).question_order = 4

\* C24: the question_order values of the questions of one quiz are pairwise
\* distinct positive integers.
C24_QuestionOrderUniquePositive ==
    \A q \in questions :
       /\ q.question_order >= 1
       /\ \A r \in questions :
             (r.quiz_id = q.quiz_id /\ r.question_order = q.question_order) => r.id = q.id

\* C25: every question row references an existing quiz row, every choice row
\* an existing question row, and every attempt_responses row an existing
\* attempt and an existing question.
C25_ReferencesResolve ==
    /\ \A q \in questions : q.quiz_id \in 1..Len(quizzes)
    /\ \A c \in choices : \E q \in questions : q.id = c.question_id
    /\ \A r \in attempt_responses :
          /\ r.attempt_id \in 1..Len(attempts)
          /\ \E q \in questions : q.id = r.question_id

\* a submission was refused by the foreign keys after the quiz was replaced
\* under it, and the replacement's rows are stored
C25_Witness ==
    /\ Returned(1, "submitQuizAttempt")
    /\ proc[1].result.error = ForeignKeyError
    /\ \E q \in questions : q.id >= 3
    /\ \E c \in choices : c.question_id >= 3

\* the result of a store update that returns: the current row, or 'not found'
\* when the id does not resolve
ReturnsRowOrNotFound(p, row, none, message) ==
    proc'[p].pc = "done"
    => IF row = none
         THEN proc'[p].result = Failure(message)
         ELSE proc'[p].result = Success(<<row>>)

\* a step of quizService.updateQuiz(quizId, quizData) by slot p
QuizStoreUpdate(p) ==
    LET id == proc[p].quizId
        in == proc[p].input
        given(v) == v # NullText
    IN  /\ (proc[p].pc = "quizService_updateQuiz" /\ ~UpdatesMetadata(in))
           => /\ db' = db
              /\ proc'[p].pc = "done"
              /\ ReturnsRowOrNotFound(p, getQuizById(id), NoQuiz, "Quiz not found")
        /\ (proc[p].pc = "quizService_updateQuiz" /\ UpdatesMetadata(in))
           => /\ <<questions, choices, attempts, attempt_responses>>'
                    = <<questions, choices, attempts, attempt_responses>>
              /\ \/ proc'[p].result = Failure(StorageError) /\ quizzes' = quizzes
                 \/ /\ proc'[p].pc # "done"
                    /\ Len(quizzes') = Len(quizzes)
                    /\ \A q \in 1..Len(quizzes) :
                          IF q # id THEN quizzes'[q] = quizzes[q]
                          ELSE /\ quizzes'[q].title =
                                     (IF given(in.title) THEN in.title ELSE quizzes[q].title)
                               /\ quizzes'[q].description =
                                     (IF given(in.description) THEN in.description
                                                               ELSE quizzes[q].description)
                               /\ quizzes'[q].instructions =
                                     (IF given(in.instructions) THEN in.instructions
                                                                ELSE quizzes[q].instructions)
                               /\ quizzes'[q].updated_at = clock
                               /\ quizzes'[q] = [quizzes[q] EXCEPT
                                                   !.title = quizzes'[q].title,
                                                   !.description = quizzes'[q].description,
                                                   !.instructions = quizzes'[q].instructions,
                                                   !.updated_at = quizzes'[q].updated_at]
        /\ proc[p].pc = "quizService_updateQuiz_read"
           => /\ db' = db
              /\ proc'[p].pc = "done"
              /\ ReturnsRowOrNotFound(p, getQuizById(id), NoQuiz, "Quiz not found")

\* a step of updateQuestion(questionId, questionData) by slot p
QuestionStoreUpdate(p) ==
    LET id == proc[p].input.id
        data == proc[p].input.data
    IN  /\ (proc[p].pc = "updateQuestion" /\ data.fields = {})
           => /\ db' = db
              /\ proc'[p].pc = "done"
              /\ ReturnsRowOrNotFound(p, getQuestionById(id), NoQuestion,
                                      "Question not found")
        /\ (proc[p].pc = "updateQuestion" /\ data.fields # {})
           => /\ <<quizzes, choices, attempts, attempt_responses>>'
                    = <<quizzes, choices, attempts, attempt_responses>>
              /\ \/ proc'[p].result = Failure(StorageError) /\ questions' = questions
                 \/ /\ proc'[p].pc # "done"
                    /\ Cardinality(questions') = Cardinality(questions)
                    /\ \A q \in questions :
                          IF q.id # id THEN q \in questions'
                          ELSE \E r \in questions' :
                                 /\ r.question_text =
                                       (IF "questionText" \in data.fields
                                          THEN data.questionText ELSE q.question_text)
                                 /\ r.question_order =
                                       (IF "questionOrder" \in data.fields
                                          THEN data.questionOrder ELSE q.question_order)
                                 /\ r.points =
                                       (IF "points" \in data.fields
                                          THEN data.points ELSE q.points)
                                 /\ r.updated_at = clock
                                 /\ r = [q EXCEPT !.question_text = r.question_text,
                                                  !.question_order = r.question_order,
                                                  !.points = r.points,
                                                  !.updated_at = r.updated_at]
        /\ proc[p].pc = "updateQuestion_read"
           => /\ db' = db
              /\ proc'[p].pc = "done"
              /\ ReturnsRowOrNotFound(p, getQuestionById(id), NoQuestion,
                                      "Question not found")

\* a step of updateChoice(choiceId, choiceData) by slot p
ChoiceStoreUpdate(p) ==
    LET id == proc[p].input.id
        data == proc[p].input.data
    IN  /\ (proc[p].pc = "updateChoice" /\ data.fields = {})
           => /\ db' = db
              /\ proc'[p].pc = "done"
              /\ ReturnsRowOrNotFound(p, getChoiceById(id), NoChoiceRow, "Choice not found")
        /\ (proc[p].pc = "updateChoice" /\ data.fields # {})
           => /\ <<quizzes, questions, attempts, attempt_responses>>'
                    = <<quizzes, questions, attempts, attempt_responses>>
              /\ \/ proc'[p].result = Failure(StorageError) /\ choices' = choices
                 \/ /\ proc'[p].pc # "done"
                    /\ Cardinality(choices') = Cardinality(choices)
                    /\ \A c \in choices :
                          IF c.id # id THEN c \in choices'
                          ELSE \E r \in choices' :
                                 /\ r.choice_text =
                                       (IF "choiceText" \in data.fields
                                          THEN data.choiceText ELSE c.choice_text)
                                 /\ r.choice_order =
                                       (IF "choiceOrder" \in data.fields
                                          THEN data.choiceOrder ELSE c.choice_order)
                                 /\ r.is_correct =
                                       (IF "isCorrect" \in data.fields
                                          THEN (IF data.isCorrect THEN 1 ELSE 0)
                                          ELSE c.is_correct)
                                 /\ r.updated_at = clock
                                 /\ r = [c EXCEPT !.choice_text = r.choice_text,
                                                  !.choice_order = r.choice_order,
                                                  !.is_correct = r.is_correct,
                                                  !.updated_at = r.updated_at]
        /\ proc[p].pc = "updateChoice_read"
           => /\ db' = db
              /\ proc'[p].pc = "done"
              /\ ReturnsRowOrNotFound(p, getChoiceById(id), NoChoiceRow, "Choice not found")

\* C26: a store update operation (quiz, question, choice) called with no
\* fields issues no write and returns the current row; called with some fields
\* it changes, in the row the id names and nowhere else, those fields and
\* updated_at; and when the id does not resolve it fails with 'not found'.
C26_StoreUpdatesChangeOnlyGivenFields ==
    [][\A p \in Procs :
          Stepped(p) => /\ QuizStoreUpdate(p)
                        /\ QuestionStoreUpdate(p)
                        /\ ChoiceStoreUpdate(p)]_vars

\* updateQuestion returned the row with the two given fields and updated_at
\* changed and the text it had, and the quiz and a choice were updated too
C26_Witness ==
    \E p \in Procs :
       /\ Returned(p, "updateQuestion")
       /\ proc[p].result.success
       /\ proc[p].input.data.fields = {"questionOrder", "points"}
       /\ proc[p].result.data[1] = [getQuestionById(1) EXCEPT !.question_text = "q-b",
                                       !.question_order = 3, !.points = 5,
                                       !.updated_at = 2]
       /\ quizzes[1].title = "t3"
       /\ quizzes[1].description = NullText
       /\ getChoiceById(GenChoiceId(1, 1)).is_correct = 1
       /\ getChoiceById(GenChoiceId(1, 1)).choice_text = "x"

\* C27: an attempt has attempt_responses rows only if its submitted_at is
\* non-null, in every state in which no submission of the attempt stands
\* between its response batch and its finalizing update: a submission that
\* failed there has left no response rows on the attempt in progress.
C27_ResponsesOnlyOnSubmittedAttempt ==
    \A r \in attempt_responses :
       \/ attempts[r.attempt_id].submitted_at # NullTime
       \/ \E p \in Procs : /\ proc[p].pc = "submit_finalize"
                           /\ proc[p].attemptId = r.attempt_id

\* C28: every attempt_responses row with a non-null choice_id names a choice
\* that belongs to the row's question_id.
C28_StoredChoiceBelongsToQuestion ==
    \A r \in attempt_responses :
       r.choice_id # NullChoice
       => \E c \in choices : c.id = r.choice_id /\ c.question_id = r.question_id

\* C29: no step of an updateQuiz call on a quiz whose is_active is 0 changes
\* the quiz's title, description or instructions, or a question or choice row.
C29_DeletedQuizNotEdited ==
    [][\A p \in Procs :
          (/\ Stepped(p)
           /\ proc[p].op = "updateQuiz"
           /\ proc[p].quizId \in 1..Len(quizzes)
           /\ quizzes[proc[p].quizId].is_active = 0)
          => /\ quizzes'[proc[p].quizId].title = quizzes[proc[p].quizId].title
             /\ quizzes'[proc[p].quizId].description = quizzes[proc[p].quizId].description
             /\ quizzes'[proc[p].quizId].instructions = quizzes[proc[p].quizId].instructions
             /\ questions' = questions
             /\ choices' = choices]_vars

\* the per-question results getAttemptResults rebuilds from the stored rows
StoredResults(attemptId) ==
    { StoredQuestionResult(r, getChoicesByQuestion(r.question_id)) :
         r \in { x \in getAttemptResponses(attemptId) :
                    getQuestionById(x.question_id) # NoQuestion } }

SeqToSet(s) == { s[i] : i \in 1..Len(s) }

\* C30: when submitQuizAttempt returns its attempt row and scoringResult, the
\* attempt row and the per-question results that getAttemptResults rebuilds
\* from the store are the same row and the same set of results; and a
\* getAttemptResults call returns exactly the stored row and the results
\* rebuilt from the store, which no later step changes while the quiz is not
\* edited.
C30_ResultsMatchSubmission ==
    [][\A p \in Procs :
          /\ (/\ proc[p].pc = "submit_return"
              /\ proc'[p].pc = "done"
              /\ proc'[p].result.success)
             => /\ proc'[p].result.data[1] = getAttemptById(proc[p].attemptId)'
                /\ SeqToSet(proc'[p].result.data[2].questionResults)
                      = StoredResults(proc[p].attemptId)'
          /\ (/\ proc[p].op = "getAttemptResults"
              /\ proc[p].pc # "done"
              /\ proc'[p].pc = "done"
              /\ proc'[p].result.success)
             => /\ proc'[p].result.data[1] = getAttemptById(proc[p].attemptId)
                /\ SeqToSet(proc'[p].result.data[3]) = StoredResults(proc[p].attemptId)]_vars

====
